---- MODULE Spec2Model ----
(***************************************************************************)
(* A model of the lnexun recovery pipeline: the consolidator               *)
(* (consolidateAllPosts, generatePostId, mergePosts, cleanWebArchiveUrls)  *)
(* and the WXR export (convertToWxr, getAuthorLogin, createNewUser).       *)
(*                                                                         *)
(* A JavaScript string is a sequence of one-character strings, so that     *)
(* length, prefix tests, case folding and the regular-expression rewrites  *)
(* are computed character by character.  undefined, null and "" are all    *)
(* falsy in every test the code makes on the fields modelled here, and are *)
(* all written <<>>.  A JavaScript number that is only ever printed        *)
(* (a post id, Date.now()) is its canonical decimal digit string, because  *)
(* capture timestamps exceed the range of machine integers.                *)
(***************************************************************************)
EXTENDS Integers, Sequences, FiniteSets, TLC

\* ------------------------------------------------------------ characters

Upper == <<"A","B","C","D","E","F","G","H","I","J","K","L","M",
           "N","O","P","Q","R","S","T","U","V","W","X","Y","Z">>

Lower == <<"a","b","c","d","e","f","g","h","i","j","k","l","m",
           "n","o","p","q","r","s","t","u","v","w","x","y","z">>

DigitChars == {"0","1","2","3","4","5","6","7","8","9"}

UpperChars == {Upper[i] : i \in 1..26}

LowerChars == {Lower[i] : i \in 1..26}

\* \w of a JavaScript regular expression
IsWordChar(c) == c \in UpperChars \cup LowerChars \cup DigitChars \cup {"_"}

\* \s of a JavaScript regular expression (the whitespace the inputs use)
IsSpace(c) == c \in {" ", "\t", "\n"}

ToLowerChar(c) ==
    IF c \in UpperChars THEN Lower[CHOOSE i \in 1..26 : Upper[i] = c] ELSE c

\* String.prototype.toLowerCase
ToLowerCase(s) == IF s = <<>> THEN <<>> ELSE [i \in 1..Len(s) |-> ToLowerChar(s[i])]

\* F applied to the value of v: a `let` or `const` of the source, computed
\* once and used several times
Bind(v, F(_)) == CHOOSE r \in {F(x) : x \in {v}} : TRUE

MinOf(S) == CHOOSE x \in S : \A y \in S : x <= y

MaxOf(S) == CHOOSE x \in S : \A y \in S : y <= x

\* the entries of s
SetOf(s) == {s[i] : i \in 1..Len(s)}

\* The subsequence of s at the indices in I, in increasing index order.
Pick(s, I) ==
    IF I = {} THEN <<>>
    ELSE LET idx == [k \in 1..Cardinality(I) |->
                        CHOOSE i \in I : Cardinality({j \in I : j < i}) = k - 1]
         IN  [k \in 1..Cardinality(I) |-> s[idx[k]]]

\* String.prototype.trim
Trim(s) ==
    Bind({i \in 1..Len(s) : ~IsSpace(s[i])}, LAMBDA solid :
        IF solid = {} THEN <<>> ELSE SubSeq(s, MinOf(solid), MaxOf(solid)))

\* String.prototype.startsWith
StartsWith(s, p) == Len(s) >= Len(p) /\ SubSeq(s, 1, Len(p)) = p

\* p occurs in s at index i
OccursAt(s, p, i) ==
    /\ i >= 1
    /\ i + Len(p) - 1 <= Len(s)
    /\ \A k \in 1..Len(p) : s[i + k - 1] = p[k]

\* String.prototype.includes
Includes(s, p) == \E i \in 1..(Len(s) + 1) : OccursAt(s, p, i)

\* String.prototype.substring(0, n)
Substring0(s, n) == IF Len(s) <= n THEN s ELSE SubSeq(s, 1, n)

\* n copies of the character c
Rep(c, n) == [i \in 1..n |-> c]

\* a.localeCompare(b) < 0 for strings of digits: the first differing
\* character decides, and a proper prefix sorts first.
StrLess(a, b) ==
    \/ Len(a) < Len(b) /\ SubSeq(b, 1, Len(a)) = a
    \/ \E k \in 1..Len(a) :
          /\ k <= Len(b)
          /\ SubSeq(a, 1, k - 1) = SubSeq(b, 1, k - 1)
          /\ \E da, db \in 0..9 :
                /\ a[k] = <<"0","1","2","3","4","5","6","7","8","9">>[da + 1]
                /\ b[k] = <<"0","1","2","3","4","5","6","7","8","9">>[db + 1]
                /\ da < db

\* --------------------------------------------------------- string constants

S_page_content == <<"p","a","g","e","-","c","o","n","t","e","n","t">>

S_error_post == <<"e","r","r","o","r","-","p","o","s","t">>

S_post_dash == <<"p","o","s","t","-">>

S_content_dash == <<"c","o","n","t","e","n","t","-">>

S_zero == <<"0">>

\* ------------------------------------------------- cleanWebArchiveUrls

S_http == <<"h","t","t","p",":","/","/">>

S_https == <<"h","t","t","p","s",":","/","/">>

S_archive == <<"w","e","b",".","a","r","c","h","i","v","e",".","o","r","g","/","w","e","b","/">>

S_lnexun == <<"h","t","t","p","s",":","/","/","l","n","e","x","u","n",".","c","o","m","/">>

S_www80_http == <<"h","t","t","p",":","/","/","w","w","w",".","l","n","e","x","u","n",".","c","o","m",":","8","0","/">>

S_www80_https == <<"h","t","t","p","s",":","/","/","w","w","w",".","l","n","e","x","u","n",".","c","o","m",":","8","0","/">>

S_www_http == <<"h","t","t","p",":","/","/","w","w","w",".","l","n","e","x","u","n",".","c","o","m","/">>

S_www_https == <<"h","t","t","p","s",":","/","/","w","w","w",".","l","n","e","x","u","n",".","c","o","m","/">>

S_src_rel == <<"s","r","c","=","\"","/","/">>

S_src_abs == <<"s","r","c","=","\"","h","t","t","p","s",":","/","/">>

S_href_rel == <<"h","r","e","f","=","\"","/","/">>

S_href_abs == <<"h","r","e","f","=","\"","h","t","t","p","s",":","/","/">>


\* length of the protocol matched by https?:\/\/ at index i, 0 if none
ProtoLen(s, i) ==
    IF OccursAt(s, S_https, i) THEN Len(S_https)
    ELSE IF OccursAt(s, S_http, i) THEN Len(S_http)
    ELSE 0

\* web\.archive\.org\/web\/\d{14}[a-zA-Z_]*\/ at index j: the index of the
\* closing slash, 0 if the pattern does not match there
ArchiveEnd(s, j) ==
    IF ~OccursAt(s, S_archive, j) THEN 0
    ELSE Bind(j + Len(S_archive), LAMBDA d :
         IF d + 13 > Len(s) \/ \E k \in d..(d + 13) : s[k] \notin DigitChars
         THEN 0
         ELSE Bind({k \in (d + 14)..Len(s) :
                       s[k] \notin UpperChars \cup LowerChars \cup {"_"}},
                   LAMBDA nonflag :
                       IF nonflag # {} /\ s[MinOf(nonflag)] = "/"
                       THEN MinOf(nonflag) ELSE 0))

\* [^"\s\)]
IsUrlChar(c) == c # "\"" /\ ~IsSpace(c) /\ c # ")"

\* last index of the maximal run of [^"\s\)] that starts at k (k - 1: no run)
RunEnd(s, k) ==
    Bind({m \in k..Len(s) : ~IsUrlChar(s[m])}, LAMBDA stops :
        IF stops = {} THEN Len(s) ELSE MinOf(stops) - 1)

\* https?:\/\/web\.archive\.org\/web\/\d{14}[a-zA-Z_]*\/ at index i: the
\* index of the closing slash, 0 if the pattern does not match there
PrefixEnd(s, i) ==
    Bind(ProtoLen(s, i), LAMBDA p : IF p = 0 THEN 0 ELSE ArchiveEnd(s, i + p))

\* fullArchivePattern at index i: the index of the last matched character
FullMatchEnd(s, i) ==
    Bind(PrefixEnd(s, i), LAMBDA e :
    Bind(IF e = 0 THEN 0 ELSE ProtoLen(s, e + 1), LAMBDA q :
    Bind(IF q = 0 THEN 0 ELSE RunEnd(s, e + 1 + q), LAMBDA r :
        IF q > 0 /\ r >= e + 1 + q THEN r ELSE 0)))

\* basicArchivePattern at index i: the index of the last matched character
BasicMatchEnd(s, i) ==
    Bind(PrefixEnd(s, i), LAMBDA e :
    Bind(IF e = 0 THEN 0 ELSE RunEnd(s, e + 1), LAMBDA r :
        IF e > 0 /\ r >= e + 1 THEN r ELSE 0))

\* String.prototype.replace with a global pattern (fetch_posts.js 507-535):
\* the matches of a global replace are taken left to right without overlap:
\* MatchEnd(text, i) is the last index of the match at i (0: none), Out(text,
\* i, r) what replaces text[i..r]; the scan starts at index from
RECURSIVE ReplaceAll(_, _, _, _)
ReplaceAll(s, MatchEnd(_, _), Out(_, _, _), from) ==
    Bind({i \in from..Len(s) : MatchEnd(s, i) > 0}, LAMBDA starts :
        IF starts = {} THEN SubSeq(s, from, Len(s))
        ELSE Bind(MinOf(starts), LAMBDA i :
             Bind(MatchEnd(s, i), LAMBDA r :
                 SubSeq(s, from, i - 1) \o Out(s, i, r)
                 \o ReplaceAll(s, MatchEnd, Out, r + 1))))

\* cleaned.replace(fullArchivePattern, '$1')
FullOut(s, i, r) == SubSeq(s, PrefixEnd(s, i) + 1, r)

\* cleaned.replace(basicArchivePattern, callback)
BasicOut(s, i, r) ==
    Bind(SubSeq(s, PrefixEnd(s, i) + 1, r), LAMBDA originalUrl :
        IF ~StartsWith(originalUrl, S_http) /\ ~StartsWith(originalUrl, S_https)
        THEN S_https \o originalUrl ELSE originalUrl)

\* cleaned.replace(remainingArchivePattern, '')
RemainingOut(s, i, r) == <<>>

\* the last index of the literal of pats that occurs in s at index i (0:
\* none); at most one of them occurs at any index
LiteralEnd(s, pats, i) ==
    IF \E p \in pats : OccursAt(s, p, i)
    THEN i + Len(CHOOSE p \in pats : OccursAt(s, p, i)) - 1 ELSE 0

\* s.replace(/p1|p2|.../g, rep) for the literal alternatives pats
ReplaceAny(s, pats, rep) ==
    ReplaceAll(s, LAMBDA x, i : LiteralEnd(x, pats, i), LAMBDA x, i, r : rep, 1)

\* lines 526-535: the literal rewrites, first to last
Rewrites ==
    << [pats |-> {S_http \o S_http, S_http \o S_https,
                  S_https \o S_http, S_https \o S_https}, rep |-> S_https],
       [pats |-> {S_www80_http, S_www80_https}, rep |-> S_lnexun],
       [pats |-> {S_www_http}, rep |-> S_lnexun],
       [pats |-> {S_www_http, S_www_https}, rep |-> S_lnexun],
       [pats |-> {S_src_rel}, rep |-> S_src_abs],
       [pats |-> {S_href_rel}, rep |-> S_href_abs] >>

RECURSIVE ApplyRewrites(_, _)
ApplyRewrites(s, k) ==
    IF k > Len(Rewrites) THEN s
    ELSE ApplyRewrites(ReplaceAny(s, Rewrites[k].pats, Rewrites[k].rep), k + 1)

cleanWebArchiveUrls(text) ==
    IF text = <<>> THEN text
    ELSE ApplyRewrites(
             ReplaceAll(
                 ReplaceAll(
                     ReplaceAll(text, FullMatchEnd, FullOut, 1),
                     BasicMatchEnd, BasicOut, 1),
                 ArchiveEnd, RemainingOut, 1),
             1)

\* ------------------------------------------------------------- cleanPost

\* A Post.  metadata.timestamp and metadata.sourceUrl are the fields
\* timestamp and sourceUrl; mergedFrom = 0, sourceTimestamps = <<>> and
\* uniqueId = <<>> stand for the absent properties of a post that has not
\* been merged or keyed.

\* Array.prototype.map (fetch_posts.js 553)
MapSeq(s, F(_)) == IF s = <<>> THEN <<>> ELSE [i \in 1..Len(s) |-> F(s[i])]

\* lines 544-549 and 571-575: the text fields that are cleaned
CleanedFields == {"title", "content", "excerpt", "author", "permalink", "fullHtml",
                  "sourceUrl"}

\* lines 552-558: the list fields whose entries are cleaned
CleanedLists == {"categories", "tags"}

cleanPost(post) ==
    [f \in DOMAIN post |->
        IF f \in CleanedFields THEN cleanWebArchiveUrls(post[f])
        ELSE IF f \in CleanedLists THEN MapSeq(post[f], cleanWebArchiveUrls)
        ELSE post[f]]

\* -------------------------------------------------------- generatePostId

\* title.toLowerCase().replace(/[^\w\s-]/g, '').replace(/\s+/g, '-')
\*      .replace(/-+/g, '-').replace(/^-|-$/g, '')
TitleSlug(title) ==
    Bind(SelectSeq(ToLowerCase(title), LAMBDA c : IsWordChar(c) \/ IsSpace(c) \/ c = "-"),
         LAMBDA kept :
    Bind(MapSeq(Pick(kept, {i \in 1..Len(kept) :
                               ~(IsSpace(kept[i]) /\ i > 1 /\ IsSpace(kept[i - 1]))}),
                LAMBDA c : IF IsSpace(c) THEN "-" ELSE c),
         LAMBDA hyph :
    Bind(Pick(hyph, {i \in 1..Len(hyph) : ~(hyph[i] = "-" /\ i > 1 /\ hyph[i - 1] = "-")}),
         LAMBDA one :
    Bind(IF one # <<>> /\ Head(one) = "-" THEN Tail(one) ELSE one,
         LAMBDA lead :
        IF lead # <<>> /\ lead[Len(lead)] = "-"
        THEN SubSeq(lead, 1, Len(lead) - 1) ELSE lead))))

\* createHash('md5').update(s).digest('hex').substring(0, 8): the digest is
\* not computed; it is a fixed function of its input, taken to be free of
\* collisions (the text itself stands for its digest).
Md5Hex8(s) == s

HashPrefixLen == 500

MinSlugLen == 3

\* HasOwnId without the test for the post-<n> placeholders
HasOwnId_NoPrefixCheck(post) ==
    /\ post.id # <<>>
    /\ post.id # S_page_content
    /\ post.id # S_error_post

HasOwnId(post) ==
    /\ post.id # <<>>
    /\ post.id # S_page_content
    /\ post.id # S_error_post
    /\ ~StartsWith(post.id, S_post_dash)

HasTitleKey(post) == Trim(post.title) # <<>> /\ Len(TitleSlug(post.title)) > MinSlugLen

\* the call reaches Date.now()
ReadsClock(post) ==
    ~HasOwnId(post) /\ ~HasTitleKey(post) /\ post.content = <<>> /\ post.timestamp = <<>>

\* generatePostId with the capture timestamp mixed into the content digest
generatePostId_StampedDigest(post, now) ==
    IF HasOwnId(post) THEN post.id
    ELSE IF HasTitleKey(post) THEN TitleSlug(post.title)
    ELSE IF post.content # <<>>
         THEN S_content_dash \o Md5Hex8(Substring0(post.content, HashPrefixLen) \o post.timestamp)
    ELSE S_post_dash \o (IF post.timestamp # <<>> THEN post.timestamp ELSE now)

\* now is the value of Date.now() at the call
generatePostId(post, now) ==
    IF HasOwnId(post) THEN post.id
    ELSE IF HasTitleKey(post) THEN TitleSlug(post.title)
    ELSE IF post.content # <<>>
         THEN S_content_dash \o Md5Hex8(Substring0(post.content, HashPrefixLen))
    ELSE S_post_dash \o (IF post.timestamp # <<>> THEN post.timestamp ELSE now)

\* ------------------------------------------------------------ mergePosts

\* Array.prototype.sort (fetch_posts.js 620-624, 724-728): a stable sort.  Before(a, b) is "the comparator is
\* negative on (a, b)".
StableSort(seq, Before(_, _)) ==
    IF seq = <<>> THEN <<>>
    ELSE Bind([i \in 1..Len(seq) |->
                  1 + Cardinality({j \in 1..Len(seq) :
                          \/ Before(seq[j], seq[i])
                          \/ ~Before(seq[i], seq[j]) /\ j < i})],
              LAMBDA pos : [k \in 1..Len(seq) |-> seq[CHOOSE i \in 1..Len(seq) : pos[i] = k]])

\* new Set(...) then Array.from: first-seen order, duplicates removed
DedupFirstSeen(s) == Pick(s, {i \in 1..Len(s) : \A j \in 1..(i - 1) : s[j] # s[i]})

RECURSIVE Flatten(_)
Flatten(ss) == IF ss = <<>> THEN <<>> ELSE Head(ss) \o Flatten(Tail(ss))

ContentLength(p) == Len(p.content) + Len(p.fullHtml)

\* line 620: the comparator of the sort, largest first
ByContentLength(posts) ==
    StableSort(posts, LAMBDA a, b : ContentLength(b) - ContentLength(a) < 0)

\* fetch_posts.js 626-642: the union of the members' terms, first seen first
AllTerms(posts, Terms(_)) == DedupFirstSeen(Flatten(MapSeq(posts, Terms)))

\* lines 646-647: the timestamps of the members that have one
SourceTimestamps(posts) ==
    SelectSeq(MapSeq(posts, LAMBDA p : p.timestamp), LAMBDA ts : ts # <<>>)

\* mergePosts without the sort: the first member is the base
mergePosts_FirstMember(posts) ==
    IF Len(posts) = 1 THEN posts[1]
    ELSE [posts[1] EXCEPT
            !.categories = AllTerms(posts, LAMBDA p : p.categories),
            !.tags = AllTerms(posts, LAMBDA p : p.tags),
            !.mergedFrom = Len(posts),
            !.sourceTimestamps = SourceTimestamps(posts)]

\* mergePosts without the union: the base keeps its own categories and tags
mergePosts_BaseTermsOnly(posts) ==
    IF Len(posts) = 1 THEN posts[1]
    ELSE Bind(ByContentLength(posts), LAMBDA sortedPosts :
             [sortedPosts[1] EXCEPT
                !.mergedFrom = Len(posts),
                !.sourceTimestamps = SourceTimestamps(sortedPosts)])

\* mergePosts without .filter(Boolean): absent timestamps are recorded too
mergePosts_KeepsAbsentStamps(posts) ==
    IF Len(posts) = 1 THEN posts[1]
    ELSE Bind(ByContentLength(posts), LAMBDA sortedPosts :
             [sortedPosts[1] EXCEPT
                !.categories = AllTerms(sortedPosts, LAMBDA p : p.categories),
                !.tags = AllTerms(sortedPosts, LAMBDA p : p.tags),
                !.mergedFrom = Len(posts),
                !.sourceTimestamps = MapSeq(sortedPosts, LAMBDA p : p.timestamp)])

\* the sort is in place, so the members are read in sorted order
mergePosts(posts) ==
    IF Len(posts) = 1 THEN posts[1]
    ELSE Bind(ByContentLength(posts), LAMBDA sortedPosts :
             [sortedPosts[1] EXCEPT
                !.categories = AllTerms(sortedPosts, LAMBDA p : p.categories),
                !.tags = AllTerms(sortedPosts, LAMBDA p : p.tags),
                !.mergedFrom = Len(posts),
                !.sourceTimestamps = SourceTimestamps(sortedPosts)])

\* --------------------------------------------------- consolidateAllPosts

\* A snapshot whose posts property is not an array carries the field
\* postsIs, "a string" (not empty) or "an object" (without a length), and
\* its field posts is not read.
IsArray(snapshot) == "postsIs" \notin DOMAIN snapshot

\* snapshot.posts && snapshot.posts.length > 0
HasLength(snapshot) ==
    IF IsArray(snapshot) THEN snapshot.posts # <<>> ELSE snapshot.postsIs = "a string"

\* line 676 without the test of snapshot.success
UsesSnapshot_IgnoresSuccess(snapshot) == HasLength(snapshot)

\* line 676: the snapshots counted as successful
UsesSnapshot(snapshot) == snapshot.success /\ HasLength(snapshot)

\* lines 668-691: allPosts, every taken post cleaned, in file order.  On
\* posts that are not an array snapshot.posts.forEach is not a function:
\* the TypeError is caught at line 688 and the loop goes to the next file.
RECURSIVE CollectPosts(_)
CollectPosts(fs) ==
    IF fs = <<>> THEN <<>>
    ELSE (IF UsesSnapshot(Head(fs)) /\ IsArray(Head(fs))
          THEN MapSeq(Head(fs).posts, cleanPost) ELSE <<>>)
         \o CollectPosts(Tail(fs))

\* the number of Date.now() calls the grouping loop makes
ClockCalls(allPosts) == Cardinality({i \in 1..Len(allPosts) : ReadsClock(allPosts[i])})

\* lines 699-706: the key of each post; nows are the successive values of
\* Date.now()
PostKeys(allPosts, nows) ==
    IF allPosts = <<>> THEN <<>>
    ELSE Bind([i \in 1..Len(allPosts) |-> ReadsClock(allPosts[i])], LAMBDA reads :
             [i \in 1..Len(allPosts) |->
                 generatePostId(allPosts[i],
                     IF reads[i] THEN nows[Cardinality({j \in 1..i : reads[j]})]
                     ELSE <<>>)])

\* a.metadata?.timestamp || '0'
TsKey(p) == IF p.timestamp # <<>> THEN p.timestamp ELSE S_zero

\* the comparator with its operands exchanged: oldest first
SortByDate_OldestFirst(uniquePosts) ==
    StableSort(uniquePosts, LAMBDA a, b : StrLess(TsKey(a), TsKey(b)))

\* lines 724-728: the comparator bTimestamp.localeCompare(aTimestamp)
SortByDate(uniquePosts) == StableSort(uniquePosts, LAMBDA a, b : StrLess(TsKey(b), TsKey(a)))

RECURSIVE SumSeq(_)
SumSeq(s) == IF s = <<>> THEN 0 ELSE Head(s) + SumSeq(Tail(s))

SubstantialLen == 100

\* s is the smallest (dir = -1) or the largest (dir = 1) of the strings in S
Extreme(S, dir) ==
    IF S = {} THEN <<>>
    ELSE CHOOSE s \in S : \A t \in S : IF dir < 0 THEN ~StrLess(t, s) ELSE ~StrLess(s, t)

\* Math.round(sum / n); -1 stands for NaN (no posts)
RoundDiv(sum, n) == IF n = 0 THEN -1 ELSE (2 * sum + n) \div (2 * n)

\* the groups merged once for every post that bears their key
MergeGroups_PerPost(allPosts, keys) ==
    MapSeq(keys,
           LAMBDA k : [mergePosts(Pick(allPosts, {i \in 1..Len(allPosts) : keys[i] = k}))
                          EXCEPT !.uniqueId = k])

\* lines 696-721: the groups in first-seen order of their keys, each merged
\* and given its key
MergeGroups(allPosts, keys) ==
    MapSeq(DedupFirstSeen(keys),
           LAMBDA k : [mergePosts(Pick(allPosts, {i \in 1..Len(allPosts) : keys[i] = k}))
                          EXCEPT !.uniqueId = k])

\* lines 735-756: the statistics of the run
Statistics(fs, allPosts, keys, uniquePosts) ==
    Bind({uniquePosts[i].timestamp : i \in 1..Len(uniquePosts)} \ {<<>>}, LAMBDA stamps :
        [totalSnapshots |-> Len(fs),
         successfulSnapshots |-> Cardinality({i \in 1..Len(fs) : UsesSnapshot(fs[i])}),
         totalPostsBeforeDedup |-> Len(allPosts),
         uniquePosts |-> Len(uniquePosts),
         duplicatesRemoved |->
             SumSeq(MapSeq(DedupFirstSeen(keys),
                           LAMBDA k : Cardinality({i \in 1..Len(keys) : keys[i] = k}) - 1)),
         postsWithContent |-> Len(SelectSeq(uniquePosts,
                                  LAMBDA p : Len(p.content) > SubstantialLen)),
         postsWithTitles |-> Len(SelectSeq(uniquePosts, LAMBDA p : Trim(p.title) # <<>>)),
         averageContentLength |-> RoundDiv(SumSeq(MapSeq(uniquePosts,
                                              LAMBDA p : Len(p.content))), Len(uniquePosts)),
         earliest |-> Extreme(stamps, -1),
         latest |-> Extreme(stamps, 1)])

\* lines 696-788: the result written, from the cleaned posts and their keys
Result(fs, allPosts, keys) ==
    Bind(SortByDate(MergeGroups(allPosts, keys)), LAMBDA uniquePosts :
        [posts |-> uniquePosts,
         statistics |-> Statistics(fs, allPosts, keys, uniquePosts)])

consolidateAllPosts(fs, nows) ==
    Bind(CollectPosts(fs), LAMBDA allPosts :
        Result(fs, allPosts, PostKeys(allPosts, nows)))

\* ------------------------------------------------------ identity resolver

S_admin == <<"a","d","m","i","n">>

S_constructor == <<"c","o","n","s","t","r","u","c","t","o","r">>

S_proto == <<"_","_","p","r","o","t","o","_","_">>

S_untitled == <<"U","n","t","i","t","l","e","d"," ","P","o","s","t">>

S_post == <<"p","o","s","t">>

S_ananay == <<"a","n","a","n","a","y","+">>

S_exunclan == <<"@","e","x","u","n","c","l","a","n",".","c","o","m">>

S_12 == <<"1","2">>

S_00 == <<"0","0">>


Identity(id, login, email, display_name, first_name, last_name) ==
    [id |-> id, login |-> login, email |-> email, display_name |-> display_name,
     first_name |-> first_name, last_name |-> last_name]

\* The fixed table, in the order of Object.entries(AUTHORS): the one key that
\* is an array index ('246964') first, the others in the order written.
\* Every key equals the login of its identity.  The two characters before
\* " sahil" that are not ASCII are written ^ and ~.
AUTHORS == <<
    Identity(15, <<"2","4","6","9","6","4">>,
             <<"2","4","6","9","6","4","@","g","m","a","i","l",".","c","o","m">>,
             <<"S","i","d">>, <<"S","i","d","h","a","r","t","h">>, <<"I","y","e","r">>),
    Identity(3, <<"a","d","m","i","n">>,
             <<"f","e","l","u","k","e","w","l","+","l","n","e","x","u","n","@","g","m","a","i","l",".","c","o","m">>,
             <<"a","d","m","i","n">>, <<>>, <<>>),
    Identity(20, <<"a","u","r","o","j","i","t">>,
             <<"a","u","r","o","j","i","t","@","g","m","a","i","l",".","c","o","m">>,
             <<"a","u","r","o","j","i","t">>, <<"A","u","r","o","j","i","t">>, <<"P","a","n","d","a">>),
    Identity(21, <<"u","d","r","a","s","t","o","g","i">>,
             <<"u","d","r","a","s","t","o","g","i","@","g","m","a","i","l",".","c","o","m">>,
             <<"u","d","r","a","s","t","o","g","i">>, <<"U","d","i","t">>, <<"R","a","s","t","o","g","i">>),
    Identity(9, <<"i","k","k","u","m","p","a","l">>,
             <<"i","k","k","u","m","p","a","l","@","g","m","a","i","l",".","c","o","m">>,
             <<"i","k","k","u","m","p","a","l">>, <<"M","u","k","e","s","h">>, <<"K","u","m","a","r">>),
    Identity(22, <<"v","i","k","s","i","t">>,
             <<"v","i","k","s","i","t","@","g","m","a","i","l",".","c","o","m">>,
             <<"v","i","k","s","i","t">>, <<>>, <<>>),
    Identity(23, <<"s","o","u","v","i","k","d","g">>,
             <<"s","o","u","v","i","k","d","g","@","g","m","a","i","l",".","c","o","m">>,
             <<"s","o","u","v","i","k","d","g">>, <<"S","o","u","v","i","k">>, <<"D","a","s"," ","G","u","p","t","a">>),
    Identity(24, <<"p","r","a","t","e","e","k","r","u","n","g","t","a">>,
             <<"p","r","a","t","e","e","k","r","u","n","g","t","a","@","g","m","a","i","l",".","c","o","m">>,
             <<"p","r","a","t","e","e","k","r","u","n","g","t","a">>, <<"P","r","a","t","e","e","k">>, <<"R","u","n","g","t","a">>),
    Identity(25, <<"a","n","a","n","t","9","0">>,
             <<"a","n","a","n","t","9","0","@","g","m","a","i","l",".","c","o","m">>,
             <<"a","n","a","n","t","9","0">>, <<"A","n","a","n","t">>, <<"J","a","i","n">>),
    Identity(26, <<"a","a","y","u","s","h","k","u","m","a","r">>,
             <<"a","a","y","u","s","h","k","u","m","a","r","@","g","m","a","i","l",".","c","o","m">>,
             <<"a","a","y","u","s","h","k","u","m","a","r">>, <<"A","a","y","u","s","h">>, <<"K","u","m","a","r">>),
    Identity(6, <<"a","d","i","t","y","a",".","a","d","i","t","u","d","e">>,
             <<"a","d","i","t","y","a",".","a","d","i","t","u","d","e","@","g","m","a","i","l",".","c","o","m">>,
             <<"a","d","i","t","y","a",".","a","d","i","t","u","d","e">>, <<"A","d","i","t","y","a">>, <<"J","a","i","n">>),
    Identity(8, <<"s","i","d","n","a","n","g","i","a">>,
             <<"s","i","d","n","a","n","g","i","a","@","g","m","a","i","l",".","c","o","m">>,
             <<"s","i","d","n","a","n","g","i","a">>, <<"S","i","d","d","h","a","r","t","h">>, <<"N","a","n","g","i","a">>),
    Identity(27, <<"r","a","g","h","a","v","k","h","u","l","l","a","r">>,
             <<"r","a","g","h","a","v","k","h","u","l","l","a","r","@","g","m","a","i","l",".","c","o","m">>,
             <<"r","a","g","h","a","v","k","h","u","l","l","a","r">>, <<"R","a","g","h","a","v">>, <<"K","h","u","l","l","a","r">>),
    Identity(16, <<"s","a","h","i","l","2","9">>,
             <<"s","a","h","i","l","2","9","@","g","m","a","i","l",".","c","o","m">>,
             <<"^","~"," ","s","a","h","i","l">>, <<"S","a","h","i","l">>, <<"B","a","j","a","j">>),
    Identity(28, <<"s","r","a","j","a","n","m","a","n","i">>,
             <<"s","r","a","j","a","n","m","a","n","i","@","g","m","a","i","l",".","c","o","m">>,
             <<"s","r","a","j","a","n","m","a","n","i">>, <<"S","r","a","j","a","n">>, <<"R","a","s","t","o","g","i">>),
    Identity(12, <<"s","h","u","b","h","a","m",".","c","a","s","h">>,
             <<"s","h","u","b","h","a","m",".","c","a","s","h","@","g","m","a","i","l",".","c","o","m">>,
             <<"S","h","u","b","h","a","m"," ","G","o","e","l">>, <<"S","h","u","b","h","a","m">>, <<"G","o","e","l">>),
    Identity(13, <<"a","k","r","i","t","i","g","a","u","r">>,
             <<"a","k","r","i","t","i","g","a","u","r","@","g","m","a","i","l",".","c","o","m">>,
             <<"a","k","r","i","t","i","g","a","u","r">>, <<"A","k","r","i","t","i">>, <<"G","a","u","r">>),
    Identity(5, <<"r","a","l","b","h","a","t">>,
             <<"r","a","l","b","h","a","t","@","g","m","a","i","l",".","c","o","m">>,
             <<"R","a","h","u","l">>, <<"R","a","h","u","l">>, <<"B","h","a","t","n","a","g","a","r">>),
    Identity(14, <<"s","a","m","a","r","t","h",".","m","a","t","h">>,
             <<"s","a","m","a","r","t","h",".","m","a","t","h","@","g","m","a","i","l",".","c","o","m">>,
             <<"s","a","m","a","r","t","h",".","m","a","t","h">>, <<"S","a","m","a","r","t","h">>, <<"M","a","t","h","u","r">>),
    Identity(18, <<"g","o","o","n","e","r","b","y","n","a","t","u","r","e">>,
             <<"t","a","n","a","y","r","u","l","z","@","g","m","a","i","l",".","c","o","m">>,
             <<"g","o","o","n","e","r","b","y","n","a","t","u","r","e">>, <<"T","a","n","a","y">>, <<"P","a","d","h","i">>),
    Identity(19, <<"v","i","s","h","e","s","h","4","2","0">>,
             <<"v","i","s","h","e","s","h","4","2","0","@","g","m","a","i","l",".","c","o","m">>,
             <<"v","i","s","h","e","s","h","4","2","0">>, <<"V","i","s","h","e","s","h">>, <<"K","u","m","a","r">>),
    Identity(29, <<"p","r","a","n","a","v","o","b","h","r","a","i">>,
             <<"p","r","a","n","a","v","o","b","h","r","a","i","@","g","m","a","i","l",".","c","o","m">>,
             <<"p","r","a","n","a","v","o","b","h","r","a","i">>, <<"P","r","a","n","a","v">>, <<"O","b","h","r","a","i">>),
    Identity(17, <<"a","d","i","t","y","a",".","g","r","o","v","e","r","1">>,
             <<"a","d","i","t","y","a",".","g","r","o","v","e","r","1","@","g","m","a","i","l",".","c","o","m">>,
             <<"a","d","i","t","y","a",".","g","r","o","v","e","r","1">>, <<"A","d","i","t","y","a">>, <<"G","r","o","v","e","r">>),
    Identity(10, <<"f","e","l","u">>,
             <<"f","e","l","u","k","e","w","l","@","g","m","a","i","l",".","c","o","m">>,
             <<"B","h","u","w","a","n"," ","K","h","a","t","t","a","r">>, <<"B","h","u","w","a","n">>, <<"K","h","a","t","t","a","r">>),
    Identity(7, <<"k","u","s","h","2","0","0","5">>,
             <<"k","u","s","h","2","0","0","5","@","g","m","a","i","l",".","c","o","m">>,
             <<"K","u","s","h"," ","A","g","r","a","w","a","l">>, <<"K","u","s","h">>, <<"A","g","r","a","w","a","l">>),
    Identity(4, <<"p","r","a","t","h","a","m",".","a","g","r","a","w","a","l","9","2">>,
             <<"p","r","a","t","h","a","m",".","a","g","r","a","w","a","l","9","2","@","g","m","a","i","l",".","c","o","m">>,
             <<"p","r","a","t","h","a","m",".","a","g","r","a","w","a","l","9","2">>, <<"P","r","a","t","h","a","m">>, <<"A","g","r","a","w","a","l">>),
    Identity(11, <<"r","o","n","n","g","9","3">>,
             <<"r","o","n","n","g","9","3","@","g","m","a","i","l",".","c","o","m">>,
             <<"r","o","n","n","g","9","3">>, <<"S","r","i","j","i","t">>, <<"G","h","o","s","h">>),
    Identity(30, <<"v","a","r","z","r","u","l","z">>,
             <<"v","a","r","z","r","u","l","z","@","g","m","a","i","l",".","c","o","m">>,
             <<"v","a","r","z","r","u","l","z">>, <<"V","a","r","u","n">>, <<"D","u","b","e","y">>),
    Identity(31, <<"k","a","r","a","n","v","e","e","r",".","1","9","9","2">>,
             <<"k","a","r","a","n","v","e","e","r",".","1","9","9","2","@","g","m","a","i","l",".","c","o","m">>,
             <<"K","a","r","a","n","v","e","e","r">>, <<"K","a","r","a","n","v","e","e","r">>, <<"M","o","h","a","n">>),
    Identity(32, <<"m","a","y","a","n","k",".","s","h","a","r","m","a","s","9","4">>,
             <<"m","a","y","a","n","k",".","s","h","a","r","m","a","s","9","4","@","g","m","a","i","l",".","c","o","m">>,
             <<"m","a","y","a","n","k",".","s","h","a","r","m","a","s","9","4">>, <<"M","a","y","a","n","k">>, <<"S","h","a","r","m","a">>),
    Identity(33, <<"a","c","h","a","l","v","2",".","0">>,
             <<"a","c","h","a","l","v","2",".","0","@","g","m","a","i","l",".","c","o","m">>,
             <<"A","c","h","a","l"," ","V","a","r","m","a">>, <<"A","c","h","a","l">>, <<"V","a","r","m","a">>),
    Identity(34, <<"s","t","r","o","n","g",".","a","m","a","n">>,
             <<"s","t","r","o","n","g",".","a","m","a","n","@","g","m","a","i","l",".","c","o","m">>,
             <<"s","t","r","o","n","g",".","a","m","a","n">>, <<"a","m","a","n">>, <<"a","g","a","r","w","a","l">>),
    Identity(35, <<"g","u","r","s","a","r","t","a","j">>,
             <<"g","u","r","s","a","r","t","a","j","@","g","m","a","i","l",".","c","o","m">>,
             <<"g","u","r","s","a","r","t","a","j">>, <<"g","u","r","s","a","r","t","a","j">>, <<"n","i","j","j","a","r">>),
    Identity(36, <<"i","s","h","a","n","2","8","m","k","i","p">>,
             <<"i","s","h","a","n","2","8","m","k","i","p","@","g","m","a","i","l",".","c","o","m">>,
             <<"i","s","h","a","n","2","8","m","k","i","p">>, <<"I","s","h","a","n">>, <<"S","h","a","r","m","a">>),
    Identity(38, <<"b","h","a","r","a","t","k","a","s","h","y","a","p",".","e","x","u","n">>,
             <<"b","h","a","r","a","t","k","a","s","h","y","a","p",".","e","x","u","n","@","g","m","a","i","l",".","c","o","m">>,
             <<"B","h","a","r","a","t"," ","K","a","s","h","y","a","p">>, <<"B","h","a","r","a","t">>, <<"K","a","s","h","y","a","p">>),
    Identity(37, <<"a","m","a","z","i","n","a","s","h","9","4">>,
             <<"a","m","a","z","i","n","a","s","h","9","4","@","g","m","a","i","l",".","c","o","m">>,
             <<"A","i","s","h","w","a","r","y","a"," ","K","a","n","e">>, <<"A","i","s","h","w","a","r","y","a">>, <<"K","a","n","e">>),
    Identity(39, <<"s","a","n","c","h","i","t",".","w","i","n","d","o","w","s">>,
             <<"s","a","n","c","h","i","t",".","w","i","n","d","o","w","s","@","g","m","a","i","l",".","c","o","m">>,
             <<"S","a","n","c","h","i","t"," ","A","b","r","o","l">>, <<"S","a","n","c","h","i","t">>, <<"A","b","r","o","l">>),
    Identity(40, <<"s","i","b","e","s","h","9","6","@","g","m","a","i","l",".","c","o","m">>,
             <<"s","i","b","e","s","h","9","6","@","g","m","a","i","l",".","c","o","m">>,
             <<"S","i","b","e","s","h"," ","K","a","r">>, <<"S","i","b","e","s","h">>, <<"K","a","r">>),
    Identity(2, <<"a","n","a","n","a","y">>,
             <<"a","n","a","n","a","y","@","e","x","u","n","c","l","a","n",".","c","o","m">>,
             <<"a","n","a","n","a","y">>, <<>>, <<>>),
    Identity(41, <<"t","r","i","j","e","e","t","m">>,
             <<"t","r","i","j","e","e","t","m","@","g","m","a","i","l",".","c","o","m">>,
             <<"T","r","i","j","e","e","t"," ","M","u","k","h","o","p","a","d","h","y","a","y">>, <<"T","r","i","j","e","e","t">>, <<"M","u","k","h","o","p","a","d","h","y","a","y">>),
    Identity(43, <<"i","b","a","t","r","a","1","7","1">>,
             <<"i","b","a","t","r","a","1","7","1","@","g","m","a","i","l",".","c","o","m">>,
             <<"i","b","a","t","r","a","1","7","1">>, <<"I","s","h","i","t","a">>, <<"B","a","t","r","a">>),
    Identity(44, <<"k","e","s","h","a","v","a","d","h","y","a","y">>,
             <<"k","e","s","h","a","v","a","d","h","y","a","y","@","g","m","a","i","l",".","c","o","m">>,
             <<"k","e","s","h","a","v","a","d","h","y","a","y">>, <<"K","e","s","h","a","v">>, <<"A","d","h","y","a","y">>),
    Identity(45, <<"r","o","h","a","n",".","n","a","g","p","a","l","9","4">>,
             <<"r","o","h","a","n",".","n","a","g","p","a","l","9","4","@","g","m","a","i","l",".","c","o","m">>,
             <<"R","o","h","a","n"," ","N","a","g","p","a","l">>, <<"R","o","h","a","n">>, <<"N","a","g","p","a","l">>),
    Identity(46, <<"s","e","a","l","e","l","f">>,
             <<"s","e","a","l","e","l","f","@","g","m","a","i","l",".","c","o","m">>,
             <<"A","k","s","h","a","y"," ","D","a","d","h","w","a","l">>, <<"A","k","s","h","a","y">>, <<"D","a","d","h","w","a","l">>),
    Identity(47, <<"a","m","b","a","r","p","a","l","1","9","9","6">>,
             <<"a","m","b","a","r","p","a","l","1","9","9","6","@","g","m","a","i","l",".","c","o","m">>,
             <<"A","m","b","a","r"," ","P","a","l">>, <<"A","m","b","a","r">>, <<"P","a","l">>),
    Identity(48, <<"a","b","h","i","s","h","e","k","b","i","s","w","a","l">>,
             <<"a","b","h","i","s","h","e","k","b","i","s","w","a","l","@","l","i","v","e",".","c","o","m">>,
             <<"a","b","h","i","s","h","e","k","b","i","s","w","a","l">>, <<"A","b","h","i","s","h","e","k">>, <<"B","i","s","w","a","l">>),
    Identity(49, <<"s","i","d","d","h","a","r","t","h","b","h","o","g","r","a">>,
             <<"s","i","d","d","h","a","r","t","h","b","h","o","g","r","a","@","g","m","a","i","l",".","c","o","m">>,
             <<"S","i","d","d","h","a","r","t","h"," ","B","h","o","g","r","a">>, <<"S","i","d","d","h","a","r","t","h">>, <<"B","h","o","g","r","a">>),
    Identity(50, <<"i","a","m","m","o","h","i","t","s","h","a","r","m","a">>,
             <<"i","a","m","m","o","h","i","t","s","h","a","r","m","a","@","g","m","a","i","l",".","c","o","m">>,
             <<"i","a","m","m","o","h","i","t","s","h","a","r","m","a">>, <<"M","o","h","i","t">>, <<"S","h","a","r","m","a">>),
    Identity(51, <<"M","a","d","h","a","v","N","a","r","a","y","a","n">>,
             <<"s","o","c","c","e","r","m","a","d","h","a","v","@","g","m","a","i","l",".","c","o","m">>,
             <<"M","a","d","h","a","v"," ","N","a","r","a","y","a","n">>, <<"M","a","d","h","a","v">>, <<"N","a","r","a","y","a","n">>),
    Identity(52, <<"p","r","a","n","n","a","y","k","h","o","s","l","a">>,
             <<"p","r","a","n","n","a","y",".","k","h","o","s","l","a","@","g","m","a","i","l",".","c","o","m">>,
             <<"P","r","a","n","n","a","y"," ","K","h","o","s","l","a">>, <<"P","r","a","n","n","a","y">>, <<"K","h","o","s","l","a">>),
    Identity(53, <<"p","a","r","t","h">>,
             <<"p","a","r","t","h","0","8","2","9","9","7","@","g","m","a","i","l",".","c","o","m">>,
             <<"P","a","r","t","h"," ","M","i","t","t","a","l">>, <<"P","a","r","t","h">>, <<"M","i","t","t","a","l">>),
    Identity(54, <<"a","b","h","i","s","h","e","k","d","p","s","e","o","k">>,
             <<"a","b","h","i","s","h","e","k","d","p","s","e","o","k","@","g","m","a","i","l",".","c","o","m">>,
             <<"A","b","h","i","s","h","e","k"," ","A","n","a","n","d">>, <<"A","b","h","i","s","h","e","k">>, <<"A","n","a","n","d">>),
    Identity(55, <<"a","r","k","i","n">>,
             <<"g","e","e","k","a","r","k","i","n","@","g","m","a","i","l",".","c","o","m">>,
             <<"A","r","k","i","n"," ","G","u","p","t","a">>, <<"A","r","k","i","n">>, <<"G","u","p","t","a">>),
    Identity(57, <<"T","a","n","a","y","V","a","r","d","h","a","n">>,
             <<"t","a","n","a","y","t","k","u","@","g","m","a","i","l",".","c","o","m">>,
             <<"T","a","n","a","y"," ","V","a","r","d","h","a","n">>, <<"T","a","n","a","y">>, <<"V","a","r","d","h","a","n">>),
    Identity(56, <<"s","a","n","a">>,
             <<"t","h","e","s","a","n","a","g","u","j","r","a","l","@","g","m","a","i","l",".","c","o","m">>,
             <<"S","a","n","a"," ","G","u","j","r","a","l">>, <<"S","a","n","a">>, <<"G","u","j","r","a","l">>),
    Identity(42, <<"d","e","v","a","n","s","h","g","a","n","d","h","i">>,
             <<"d","e","v","a","n","s","h","g","a","n","d","h","i","1","0","3","@","g","m","a","i","l",".","c","o","m">>,
             <<"D","e","v","a","n","s","h"," ","G","a","n","d","h","i">>, <<"D","e","v","a","n","s","h">>, <<"G","a","n","d","h","i">>),
    Identity(59, <<"s","a","u","m","i","t","r","k","h","u","l","l","a","r">>,
             <<"s","a","u","m","i","t","r","k","h","u","l","l","a","r","@","g","m","a","i","l",".","c","o","m">>,
             <<"S","a","u","m","i","t","r","a"," ","K","h","u","l","l","a","r">>, <<"S","a","u","m","i","t","r","a">>, <<"K","h","u","l","l","a","r">>),
    Identity(58, <<"a","k","s","h","a","y","g","u","p","t","a">>,
             <<"w","i","z","a","r","d","g","u","p","t","a","@","g","m","a","i","l",".","c","o","m">>,
             <<"A","k","s","h","a","y"," ","G","u","p","t","a">>, <<"A","k","s","h","a","y">>, <<"G","u","p","t","a">>),
    Identity(60, <<"h","a","r","s","h","i","l">>,
             <<"h","a","r","s","h","i","l","k","a","s","h","y","a","p","3","5","9","8","@","g","m","a","i","l",".","c","o","m">>,
             <<"H","a","r","s","h","i","l"," ","K","a","s","h","y","a","p">>, <<"H","a","r","s","h","i","l">>, <<"K","a","s","h","y","a","p">>),
    Identity(61, <<"e","a","g","e","r","b","e","a","v","e","r","s">>,
             <<"u","d","i","t","@","e","x","u","n","c","l","a","n",".","c","o","m">>,
             <<"U","d","i","t"," ","M","a","l","i","k">>, <<"U","d","i","t">>, <<"M","a","l","i","k">>),
    Identity(62, <<"t","a","n","m","a","y">>,
             <<"b","a","n","s","a","l",".","t","a","n","m","a","y","9","9","@","g","m","a","i","l",".","c","o","m">>,
             <<"T","a","n","m","a","y"," ","B","a","n","s","a","l">>, <<"T","a","n","m","a","y">>, <<"B","a","n","s","a","l">>),
    Identity(63, <<"m","a","n","a","v">>,
             <<"m","a","n","a","v","a","g","g","a","r","w","a","l","1","2","3","4","@","g","m","a","i","l",".","c","o","m">>,
             <<"M","a","n","a","v"," ","A","g","g","a","r","w","a","l">>, <<"M","a","n","a","v">>, <<"A","g","g","a","r","w","a","l">>),
    Identity(64, <<"g","s","h","a","g","u","n","2","0">>,
             <<"g","s","h","a","g","u","n","2","0","@","g","m","a","i","l",".","c","o","m">>,
             <<"S","h","a","g","u","n"," ","G","o","e","l">>, <<"S","h","a","g","u","n">>, <<"G","o","e","l">>),
    Identity(65, <<"r","i","t","i","n">>,
             <<"r","i","t","i","n","@","g","a","u","r","a","v","p","a","c","h","n","a","n","d","a",".","c","o","m">>,
             <<"R","i","t","i","n"," ","P","a","c","h","n","a","n","d","a">>, <<"R","i","t","i","n">>, <<"P","a","c","h","n","a","n","d","a">>),
    Identity(66, <<"a","v","e","n","e","e","l">>,
             <<"a","v","e","n","e","e","l","@","h","o","t","m","a","i","l",".","c","o","m">>,
             <<"A","v","e","n","e","e","l"," ","W","a","a","d","h","w","a">>, <<"A","v","e","n","e","e","l">>, <<"W","a","a","d","h","w","a">>),
    Identity(67, <<"s","r","i","j","a","n">>,
             <<"s","r","i","j","a","n","j","a","i","n","1","2","0","7","@","g","m","a","i","l",".","c","o","m">>,
             <<"S","r","i","j","a","n"," ","J","a","i","n">>, <<"S","r","i","j","a","n">>, <<"J","a","i","n">>),
    Identity(68, <<"a","y","u","s","h">>,
             <<"a","y","u","s","h","s","i","n","g","l","a",".","a","s","@","g","m","a","i","l",".","c","o","m">>,
             <<"A","y","u","s","h"," ","S","i","n","g","l","a">>, <<"A","y","u","s","h">>, <<"S","i","n","g","l","a">>),
    Identity(69, <<"a","n","i","r","u","d","h","g","o","y","a","l">>,
             <<"a","n","i","r","u","d","h",".","g","o","y","a","l","0","5","@","g","m","a","i","l",".","c","o","m">>,
             <<"A","n","i","r","u","d","h"," ","G","o","y","a","l">>, <<"A","n","i","r","u","d","h">>, <<"G","o","y","a","l">>),
    Identity(70, <<"r","o","h","a","n">>,
             <<"r","o","h","a","n",".","o","f","f","i","@","g","m","a","i","l",".","c","o","m">>,
             <<"R","o","h","a","n"," ","D","h","a","r">>, <<"R","o","h","a","n">>, <<"D","h","a","r">>),
    Identity(72, <<"a","a","r","a","i","v","s","h","a","r","m","a">>,
             <<"a","a","r","a","i","v","c","o","o","l","7","@","g","m","a","i","l",".","c","o","m">>,
             <<"A","a","r","a","i","v"," ","S","h","a","r","m","a">>, <<"A","a","r","a","i","v">>, <<"S","h","a","r","m","a">>),
    Identity(71, <<"a","k","s","h","a","y","k","h","a","n","d","e","l","w","a","l">>,
             <<"a","k","s","h","a","y","@","e","x","u","n","c","l","a","n",".","c","o","m">>,
             <<"A","k","s","h","a","y"," ","K","h","a","n","d","e","l","w","a","l">>, <<"A","k","s","h","a","y">>, <<"K","h","a","n","d","e","l","w","a","l">>),
    Identity(73, <<"k","a","b","i","r">>,
             <<"k","a","b","i","r","g","o","e","l",".","k","g","@","g","m","a","i","l",".","c","o","m">>,
             <<"K","a","b","i","r"," ","G","o","e","l">>, <<"K","a","b","i","r">>, <<"G","o","e","l">>) >>

\* the property names every object inherits that are all lower case
InheritedKeys == {S_constructor, S_proto}

\* AUTHORS[k] is truthy
IsAuthorKey(k) == (\E i \in 1..Len(AUTHORS) : AUTHORS[i].login = k) \/ k \in InheritedKeys

\* s.split(/\s+/) of a trimmed, non-empty string
Words(s) ==
    MapSeq(Pick([i \in 1..Len(s) |-> i],
                {i \in 1..Len(s) : ~IsSpace(s[i]) /\ (i = 1 \/ IsSpace(s[i - 1]))}),
           LAMBDA i : SubSeq(s, i, MinOf({j \in i..Len(s) : j = Len(s) \/ IsSpace(s[j + 1])})))

IdOffset == 1000

\* CREATED_USERS.set(key, user): a Map keeps the position of a key it has
Users_set(users, key, user) ==
    IF \E i \in 1..Len(users) : users[i].login = key
    THEN [i \in 1..Len(users) |-> IF users[i].login = key THEN user ELSE users[i]]
    ELSE Append(users, user)

\* username.replace(/[^a-z0-9.]/g, '')
CleanUsername(s) == SelectSeq(s, LAMBDA c : c \in LowerChars \cup DigitChars \cup {"."})

\* username.replace(/[^a-z0-9]/g, '')
CleanEmailName(s) == SelectSeq(s, LAMBDA c : c \in LowerChars \cup DigitChars)

\* lines 319-344: the user made of a first and a last name
NewUser(cleanAuthor, firstName, lastName, users) ==
    Bind(CleanUsername(IF lastName # <<>>
                       THEN ToLowerCase(firstName) \o <<".">> \o ToLowerCase(lastName)
                       ELSE ToLowerCase(firstName)),
         LAMBDA cleanUsername :
        [login |-> cleanUsername,
         users |-> Users_set(users, cleanUsername,
                       Identity(IdOffset + Len(users) + 1,
                                cleanUsername,
                                S_ananay
                                \o CleanEmailName(IF lastName # <<>>
                                                  THEN ToLowerCase(firstName)
                                                       \o ToLowerCase(lastName)
                                                  ELSE ToLowerCase(firstName))
                                \o S_exunclan,
                                cleanAuthor, firstName, lastName))])

\* createNewUser: the login returned and CREATED_USERS after the call
createNewUser(authorString, users) ==
    Bind(Trim(authorString), LAMBDA cleanAuthor :
        IF cleanAuthor = <<>> THEN [login |-> S_admin, users |-> users]
        ELSE Bind(Words(cleanAuthor), LAMBDA nameParts :
                 NewUser(cleanAuthor, nameParts[1],
                         IF Len(nameParts) >= 2 THEN nameParts[Len(nameParts)] ELSE <<>>,
                         users)))

\* lines 365-368 and 379-381: the lower-cased names of the identity at
\* position i of the table
LowerNames ==
    [i \in 1..Len(AUTHORS) |->
        [displayName |-> ToLowerCase(AUTHORS[i].display_name),
         firstName |-> ToLowerCase(AUTHORS[i].first_name),
         lastName |-> ToLowerCase(AUTHORS[i].last_name),
         fullName |-> Trim(ToLowerCase(AUTHORS[i].first_name) \o <<" ">>
                           \o ToLowerCase(AUTHORS[i].last_name))]]

\* the exact-name test without the comparison of the last name
ExactMatch_WithoutLastName(i, cleanAuthor) ==
    cleanAuthor \in {LowerNames[i].displayName, LowerNames[i].fullName,
                     LowerNames[i].firstName}

\* lines 364-374: the exact-name test of one identity
ExactMatch(i, cleanAuthor) ==
    cleanAuthor \in {LowerNames[i].displayName, LowerNames[i].fullName,
                     LowerNames[i].firstName, LowerNames[i].lastName}

\* lines 378-395: the whole-word test of one identity; words is the set of
\* the author's words
WordMatch(i, words) ==
    \/ /\ LowerNames[i].firstName # <<>>
       /\ LowerNames[i].lastName # <<>>
       /\ LowerNames[i].firstName \in words
       /\ LowerNames[i].lastName \in words
    \/ LowerNames[i].displayName # <<>> /\ LowerNames[i].displayName \in words

\* test_single.js 364-395: the login of the first identity of the table, in
\* Object.entries order,
\* that passes the test; <<>> if none does
FirstAuthor(Test(_)) ==
    Bind({i \in 1..Len(AUTHORS) : Test(i)}, LAMBDA found :
        IF found = {} THEN <<>> ELSE AUTHORS[MinOf(found)].login)

\* lines 356-399, for an author string that is not blank
ResolveAuthor(authorString, cleanAuthor, users) ==
    IF IsAuthorKey(cleanAuthor) THEN [login |-> cleanAuthor, users |-> users]
    ELSE Bind(FirstAuthor(LAMBDA i : ExactMatch(i, cleanAuthor)), LAMBDA exact :
         IF exact # <<>> THEN [login |-> exact, users |-> users]
         ELSE Bind(SetOf(Words(cleanAuthor)), LAMBDA authorWords :
              Bind(FirstAuthor(LAMBDA i : WordMatch(i, authorWords)), LAMBDA byWord :
                  IF byWord # <<>> THEN [login |-> byWord, users |-> users]
                  ELSE createNewUser(authorString, users))))

\* getAuthorLogin: the login returned and CREATED_USERS after the call
getAuthorLogin(authorString, users) ==
    IF Trim(authorString) = <<>> THEN [login |-> S_admin, users |-> users]
    ELSE ResolveAuthor(authorString, Trim(ToLowerCase(authorString)), users)

\* ---------------------------------------------------------------- inputs

S_post_0 == <<"p","o","s","t","-","0">>

S_post_1 == <<"p","o","s","t","-","1">>

S_article_7 == <<"a","r","t","i","c","l","e","-","7">>

T_HelloWorld == <<"H","e","l","l","o"," ","W","o","r","l","d","!">>

T_hello_world == <<"h","e","l","l","o"," "," "," ","w","o","r","l","d">>

T_Hi == <<"H","i","!">>

T_About == <<"A","b","o","u","t"," ","E","x","u","n">>

T_Exun2020 == <<"E","x","u","n"," ","2","0","2","0">>

T_Lost == <<"L","o","s","t"," ","P","o","s","t">>

TS_20200101 == <<"2","0","2","0","0","1","0","1","0","0","0","0","0","0">>

TS_20200601 == <<"2","0","2","0","0","6","0","1","0","0","0","0","0","0">>

TS_20230101 == <<"2","0","2","3","0","1","0","1","0","0","0","0","0","0">>

TS_20230601 == <<"2","0","2","3","0","6","0","1","0","0","0","0","0","0">>

Now1 == <<"1","7","0","0","0","0","0","0","0","0","0","0","0">>

Now2 == <<"1","7","0","0","0","0","0","0","0","0","0","0","1">>

Tag_news == <<"n","e","w","s">>

Tag_update == <<"u","p","d","a","t","e">>

Tag_exun == <<"e","x","u","n">>

Cat_Blog == <<"B","l","o","g">>

Cat_Events == <<"E","v","e","n","t","s">>

A_Aurojit == <<"A","u","r","o","j","i","t"," ","P","a","n","d","a">>

A_New == <<"C","o","m","p","l","e","t","e","l","y"," ","N","e","w"," ","P","e","r","s","o","n">>

A_Other == <<"J","a","n","e"," ","R","o","e">>

A_Other2 == <<"j","a","n","e"," "," ","r","o","e">>

U_wrapped == <<"h","t","t","p","s",":","/","/","w","e","b",".","a","r","c","h","i","v","e",".","o","r","g","/","w","e","b","/","2","0","2","3","0","3","2","2","1","2","0","5","5","0","/","h","t","t","p",":","/","/","w","w","w",".","l","n","e","x","u","n",".","c","o","m","/","a">>

U_img == <<"<","i","m","g"," ","s","r","c","=","\"","h","t","t","p","s",":","/","/","w","e","b",".","a","r","c","h","i","v","e",".","o","r","g","/","w","e","b","/","2","0","2","3","0","3","2","2","1","2","0","5","5","0","i","m","_","/","h","t","t","p","s",":","/","/","l","n","e","x","u","n",".","c","o","m","/","i",".","p","n","g","\"",">">>

C_short == <<"s","h","o","r","t"," ","t","e","x","t">>

C_about == <<"A","b","o","u","t","!">>

C_about2 == <<"a","b","o","u","t"," ","u","s">>

C_long12 == <<"t","w","e","l","v","e"," ","c","h","a","r","s">>


RawPost(id, title, content, fullHtml, author, categories, tags, timestamp) ==
    [id |-> id, classes |-> <<>>, title |-> title, content |-> content,
     excerpt |-> <<>>, author |-> author, permalink |-> <<>>, fullHtml |-> fullHtml,
     categories |-> categories, tags |-> tags,
     timestamp |-> timestamp, sourceUrl |-> <<>>,
     mergedFrom |-> 0, sourceTimestamps |-> <<>>, uniqueId |-> <<>>]

\* three captures of one post: 60 and 120 characters of content, and a
\* capture whose title differs in case and spacing only
PA1 == [RawPost(S_post_0, T_HelloWorld, Rep("x", 60), <<>>, A_Aurojit,
                <<Cat_Blog>>, <<Tag_news>>, TS_20200101) EXCEPT !.permalink = U_wrapped]

PA2 == RawPost(S_post_0, T_HelloWorld, Rep("x", 120), <<>>, A_New,
               <<Cat_Blog, Cat_Events>>, <<Tag_update, Tag_news>>, TS_20200601)

PA3 == RawPost(S_post_1, T_hello_world, C_short, <<>>, A_Other,
               <<>>, <<Tag_exun>>, TS_20230101)

\* three posts that carry the same element id: equal totals (6 + 10 and
\* 8 + 8), one without a capture timestamp, one with the longest content
\* but the smallest total
PB1 == [RawPost(S_article_7, T_About, C_about, Rep("h", 10), A_New,
                <<Cat_Events>>, <<>>, TS_20200101) EXCEPT !.excerpt = U_img]

PB2 == RawPost(S_article_7, T_Hi, C_about2, Rep("g", 8), A_Other2,
               <<Cat_Blog>>, <<Tag_exun, Tag_exun>>, <<>>)

PB3 == RawPost(S_article_7, T_About, C_long12, <<>>, <<>>,
               <<Cat_Events, Cat_Blog>>, <<Tag_news>>, TS_20230601)

\* posts with a placeholder id, no title and no content
PC1 == RawPost(S_post_1, <<>>, <<>>, <<>>, <<>>, <<>>, <<>>, TS_20230101)

PC2 == RawPost(S_post_1, <<>>, <<>>, <<>>, <<>>, <<>>, <<>>, TS_20230601)

PC3 == RawPost(S_post_0, <<>>, <<>>, <<>>, <<>>, <<>>, <<>>, <<>>)

PC4 == RawPost(S_post_1, <<>>, <<>>, <<>>, <<>>, <<>>, <<>>, <<>>)

\* a whole-page post whose title is too short for a slug
PD1 == RawPost(S_page_content, T_Hi, C_short, <<>>, A_Other, <<>>, <<>>, TS_20230101)

PD2 == RawPost(S_page_content, T_Hi, C_short, <<>>, A_Other, <<>>, <<>>, TS_20230601)

\* a post with the placeholder id of PA1 and PA2 and a title of its own
PF == RawPost(S_post_0, T_Exun2020, C_about, <<>>, A_Aurojit, <<>>, <<>>, TS_20200601)

PE == RawPost(S_post_0, T_Lost, C_about, <<>>, A_New, <<Cat_Blog>>, <<>>, TS_20230601)

Snapshot(timestamp, success, posts) ==
    [timestamp |-> timestamp, success |-> success, posts |-> posts]

SnapshotPool ==
    { Snapshot(TS_20200101, TRUE, <<PA1, PB1>>),
      Snapshot(TS_20200601, TRUE, <<PA2, PB2, PF>>),
      Snapshot(TS_20230101, TRUE, <<PA3, PC1, PD1>>),
      Snapshot(TS_20230601, TRUE, <<PB3, PC2, PD2>>),
      Snapshot(TS_20200601, TRUE, <<PC3, PC4>>),
      Snapshot(TS_20230601, FALSE, <<PE>>),
      Snapshot(TS_20230101, FALSE, <<>>),
      Snapshot(TS_20200101, TRUE, <<>>) }

\* the values Date.now() can return
NowPool == {Now1, Now2}

\* n successive clock readings: the clock does not go back
NowSeqs(n) ==
    {s \in [1..n -> NowPool] : \A i \in 1..(n - 1) : ~StrLess(s[i + 1], s[i])}

\* ------------------------------------------------------------ WXR export

\* /^\d+$/.test(s)
IsDigits(s) == s # <<>> /\ \A i \in 1..Len(s) : s[i] \in DigitChars

\* the maximal run of digits of s from index i on
DigitRun(s, i) ==
    Bind({k \in i..Len(s) : s[k] \notin DigitChars}, LAMBDA stops :
        SubSeq(s, i, IF stops = {} THEN Len(s) ELSE MinOf(stops) - 1))

\* a number printed in decimal: the digits without their leading zeros
Decimal(digits) ==
    Bind({k \in 1..Len(digits) : digits[k] # "0"}, LAMBDA solid :
        IF digits = <<>> THEN <<>>
        ELSE IF solid = {} THEN S_zero
        ELSE SubSeq(digits, MinOf(solid), Len(digits)))

\* parseInt(s) printed in decimal, <<>> for NaN: the leading digits of s
ParseInt(s) == Decimal(DigitRun(s, 1))

\* s.match(/post-(\d+)/): the digits captured, <<>> when there is no match
PostDashDigits(s) ==
    Bind({i \in 1..Len(s) : OccursAt(s, S_post_dash, i)
                             /\ DigitRun(s, i + Len(S_post_dash)) # <<>>},
         LAMBDA at :
        IF at = {} THEN <<>> ELSE DigitRun(s, MinOf(at) + Len(S_post_dash)))

\* lines 121-135: the id found in the post, <<>> if there is none.
\* timestamp.substring(-8) is the whole timestamp, and a parsed 0 is falsy.
FoundPostId(post) ==
    IF IsDigits(post.id) THEN ParseInt(post.id)
    ELSE IF PostDashDigits(post.id) # <<>> THEN ParseInt(PostDashDigits(post.id))
    ELSE IF PostDashDigits(post.classes) # <<>> THEN ParseInt(PostDashDigits(post.classes))
    ELSE IF post.timestamp # <<>> /\ ParseInt(post.timestamp) # S_zero
         THEN ParseInt(post.timestamp)
    ELSE <<>>

\* the call of extractPostId reaches Date.now()
IdReadsClock(post) == FoundPostId(post) = <<>>

\* extractPostId; now is Date.now(), or Date.now() + Math.floor(Math.random()
\* * 1000), at the call
extractPostId(post, now) ==
    Bind(FoundPostId(post), LAMBDA found : IF found # <<>> THEN found ELSE now)

SlugLimit == 200

\* generateSlug
generateSlug(title, postId) ==
    IF Trim(title) # <<>> THEN Substring0(TitleSlug(title), SlugLimit)
    ELSE IF postId # <<>> THEN postId ELSE S_post

\* s.substring(from, to)
Substring(s, from, to) ==
    IF from >= Len(s) THEN <<>> ELSE SubSeq(s, from + 1, IF to < Len(s) THEN to ELSE Len(s))

\* formatWordPressDate with 00 as the hour of a timestamp without one
formatWordPressDate_MidnightDefault(timestamp, now) ==
    IF timestamp = <<>>
    THEN [clock |-> now, year |-> <<>>, month |-> <<>>, day |-> <<>>,
          hour |-> <<>>, minute |-> <<>>, second |-> <<>>]
    ELSE [clock |-> <<>>,
          year |-> Substring(timestamp, 0, 4),
          month |-> Substring(timestamp, 4, 6),
          day |-> Substring(timestamp, 6, 8),
          hour |-> IF Substring(timestamp, 8, 10) # <<>>
                   THEN Substring(timestamp, 8, 10) ELSE S_00,
          minute |-> IF Substring(timestamp, 10, 12) # <<>>
                     THEN Substring(timestamp, 10, 12) ELSE S_00,
          second |-> IF Substring(timestamp, 12, 14) # <<>>
                     THEN Substring(timestamp, 12, 14) ELSE S_00]

\* formatWordPressDate: the fields the date string is built from.  Without a
\* timestamp the date is the clock's (now); the normalisation the Date
\* object applies to the fields is not modelled.
formatWordPressDate(timestamp, now) ==
    IF timestamp = <<>>
    THEN [clock |-> now, year |-> <<>>, month |-> <<>>, day |-> <<>>,
          hour |-> <<>>, minute |-> <<>>, second |-> <<>>]
    ELSE [clock |-> <<>>,
          year |-> Substring(timestamp, 0, 4),
          month |-> Substring(timestamp, 4, 6),
          day |-> Substring(timestamp, 6, 8),
          hour |-> IF Substring(timestamp, 8, 10) # <<>>
                   THEN Substring(timestamp, 8, 10) ELSE S_12,
          minute |-> IF Substring(timestamp, 10, 12) # <<>>
                     THEN Substring(timestamp, 10, 12) ELSE S_00,
          second |-> IF Substring(timestamp, 12, 14) # <<>>
                     THEN Substring(timestamp, 12, 14) ELSE S_00]

DigitValue(c) == CHOOSE d \in 0..9 : <<"0","1","2","3","4","5","6","7","8","9">>[d + 1] = c

\* the number a field of two digits stands for, 0 for a year of four digits,
\* -1 if s is not n digits
FieldValue(s, n) ==
    IF Len(s) = n /\ IsDigits(s)
    THEN IF n = 2 THEN 10 * DigitValue(s[1]) + DigitValue(s[2]) ELSE 0
    ELSE -1

\* line 100, new Date(`${year}-${month}-${day}T${hour}:${minute}:${second}Z`):
\* the string is a date-time of the ECMAScript format, whose fields have
\* their full width and are in range; any other string with a T gives
\* Invalid Date.  (Hour 24 and days past the end of a month, which Date
\* would move to the next day, are not among the inputs.)
IsDateTime(d) ==
    /\ FieldValue(d.year, 4) = 0
    /\ FieldValue(d.month, 2) \in 1..12
    /\ FieldValue(d.day, 2) \in 1..31
    /\ FieldValue(d.hour, 2) \in 0..23
    /\ FieldValue(d.minute, 2) \in 0..59
    /\ FieldValue(d.second, 2) \in 0..59

\* line 101, date.toISOString().replace(/\.\d{3}Z$/, '+00:00'): what
\* formatWordPressDate returns for a timestamp, or the RangeError that
\* toISOString throws on an Invalid Date
DateText(d) ==
    IF d.clock # <<>>
    THEN [threw |-> FALSE, text |-> d.clock]   \* line 90: the instant of the clock reading
    ELSE IF IsDateTime(d)
    THEN [threw |-> FALSE,
          text |-> d.year \o <<"-">> \o d.month \o <<"-">> \o d.day \o <<"T">>
                   \o d.hour \o <<":">> \o d.minute \o <<":">> \o d.second
                   \o <<"+","0","0",":","0","0">>]
    ELSE [threw |-> TRUE, text |-> <<>>]

S_amp == <<"&","a","m","p",";">>

S_lt == <<"&","l","t",";">>

S_gt == <<"&","g","t",";">>

S_quot == <<"&","q","u","o","t",";">>

S_apos == <<"&","#","0","3","9",";">>

S_cdata_open == <<"<","!","[","C","D","A","T","A","[">>

S_cdata_close == <<"]","]",">">>

S_close_escaped == <<"]","]","&","g","t",";">>

\* unsafe.replace(/c/g, rep) for one character c
ReplaceChar(s, c, rep) == Flatten(MapSeq(s, LAMBDA ch : IF ch = c THEN rep ELSE <<ch>>))

\* escapeXml: the five rewrites in their order
escapeXml(unsafe) ==
    ReplaceChar(ReplaceChar(ReplaceChar(ReplaceChar(ReplaceChar(
        unsafe, "&", S_amp), "<", S_lt), ">", S_gt), "\"", S_quot), "'", S_apos)

\* cdata
cdata(content) ==
    IF content = <<>> THEN <<>>
    ELSE S_cdata_open \o ReplaceAny(content, {S_cdata_close}, S_close_escaped)
         \o S_cdata_close

\* term.toLowerCase().replace(/[^\w\s-]/g, '').replace(/\s+/g, '-')
TermSlug(term) ==
    LET kept == SelectSeq(ToLowerCase(term),
                          LAMBDA c : IsWordChar(c) \/ IsSpace(c) \/ c = "-")
        runs == Pick(kept, {i \in 1..Len(kept) :
                               ~(IsSpace(kept[i]) /\ i > 1 /\ IsSpace(kept[i - 1]))})
    IN  MapSeq(runs, LAMBDA c : IF IsSpace(c) THEN "-" ELSE c)

\* createTaxonomyXml: one reference per term
createTaxonomyXml(terms, taxonomy) ==
    MapSeq(terms, LAMBDA term : [domain |-> taxonomy, nicename |-> TermSlug(term),
                                 name |-> term])

\* lines 166-214: the item of a post whose title, slug and author have been
\* worked out.  The item holds the values placed into the markup, before
\* their escaping.
Item(post, title, slug, creator, idNow, dateNow) ==
    [title |-> title,
     slug |-> slug,
     creator |-> creator,
     post_id |-> extractPostId(post, idNow),
     date |-> formatWordPressDate(post.timestamp, dateNow),
     content |-> IF post.content # <<>> THEN post.content ELSE post.fullHtml,
     excerpt |-> post.excerpt,
     terms |-> createTaxonomyXml(post.categories, "category")
               \o createTaxonomyXml(post.tags, "post_tag"),
     old_slug |-> IF post.uniqueId # <<>> THEN post.uniqueId ELSE slug,
     original_timestamp |-> post.timestamp,
     merged_from |-> IF post.mergedFrom # 0 THEN post.mergedFrom ELSE 1]

\* convertPostToWxr: the item, and CREATED_USERS after the call.  idNow and
\* dateNow are the clock's values for the post id and for the date.
convertPostToWxr(post, users, idNow, dateNow) ==
    Bind(IF post.title # <<>> THEN post.title ELSE S_untitled, LAMBDA title :
    Bind(getAuthorLogin(post.author, users), LAMBDA resolved :
        [item |-> Item(post, title, generateSlug(title, post.uniqueId), resolved.login,
                       idNow, dateNow),
         users |-> resolved.users]))

\* line 451: posts.map(convertPostToWxr), items first to last; reads[i] are
\* the clock's values for post i
RECURSIVE ConvertAll(_, _, _, _)
ConvertAll(posts, users, reads, i) ==
    IF i > Len(posts) THEN [items |-> <<>>, users |-> users]
    ELSE Bind(convertPostToWxr(posts[i], users, reads[i][1], reads[i][2]), LAMBDA one :
         Bind(ConvertAll(posts, one.users, reads, i + 1), LAMBDA rest :
             [items |-> <<one.item>> \o rest.items, users |-> rest.users]))

\* the term definitions numbered with the index itself, without the + 1
TermDefs_IndexAsId(terms, first) ==
    IF terms = <<>> THEN <<>>
    ELSE [i \in 1..Len(terms) |->
            [term_id |-> first + i - 2, slug |-> TermSlug(terms[i]), name |-> terms[i]]]

\* lines 430-441: the term definitions, numbered from first on
TermDefs(terms, first) ==
    IF terms = <<>> THEN <<>>
    ELSE [i \in 1..Len(terms) |->
            [term_id |-> first + i - 1, slug |-> TermSlug(terms[i]), name |-> terms[i]]]

\* a text of a post or of a created user as the document holds it, and the
\* element (or attribute) it is placed in
Text(element, text) == [element |-> element, text |-> text]

\* lines 166-214: the texts of a post placed into its item
ItemTexts(item) ==
    << Text("title", item.title),
       Text("link", item.slug),
       Text("dc:creator", cdata(item.creator)),
       Text("content:encoded", cdata(item.content)),
       Text("excerpt:encoded", cdata(item.excerpt)),
       Text("wp:post_name", cdata(item.slug)) >>
    \o Flatten(MapSeq(item.terms, LAMBDA term :
           << Text("category nicename", escapeXml(term.nicename)),
              Text("category", cdata(term.name)) >>))
    \o << Text("_wp_old_slug", cdata(item.old_slug)),
          Text("_lnexun_original_timestamp", cdata(item.original_timestamp)) >>

\* lines 423-449: the texts placed into the header, of the created users
\* and of the terms
HeaderTexts(users, categories, tags) ==
    Flatten(MapSeq(users, LAMBDA author :
        << Text("wp:author_login", cdata(author.login)),
           Text("wp:author_email", cdata(author.email)),
           Text("wp:author_display_name", cdata(author.display_name)),
           Text("wp:author_first_name", cdata(author.first_name)),
           Text("wp:author_last_name", cdata(author.last_name)) >>))
    \o Flatten(MapSeq(categories, LAMBDA cat :
           << Text("wp:category_nicename", escapeXml(cat.slug)),
              Text("wp:cat_name", cdata(cat.name)) >>))
    \o Flatten(MapSeq(tags, LAMBDA tag :
           << Text("wp:tag_slug", escapeXml(tag.slug)),
              Text("wp:tag_name", cdata(tag.name)) >>))

\* lines 453-482: the document, of the identities, the terms and the items.
\* It holds the values placed into the markup, before their escaping.
Document(users, categories, tags, items) ==
    [authors |-> AUTHORS \o users,
     categories |-> categories,
     tags |-> tags,
     items |-> items]

\* the texts of the posts and of the created users as the document's markup
\* holds them, header first
DocumentTexts(doc) ==
    HeaderTexts(SubSeq(doc.authors, Len(AUTHORS) + 1, Len(doc.authors)),
                doc.categories, doc.tags)
    \o Flatten(MapSeq(doc.items, ItemTexts))

\* createWxrFile: the document, and CREATED_USERS after the call.  The
\* generation date of the document is left out.
createWxrFile(posts, users, reads) ==
    Bind(AllTerms(posts, LAMBDA p : p.categories), LAMBDA allCategories :
    Bind(ConvertAll(posts, users, reads, 1), LAMBDA converted :
        [doc |-> Document(users,
                          TermDefs(allCategories, 1),
                          TermDefs(AllTerms(posts, LAMBDA p : p.tags),
                                   Len(allCategories) + 1),
                          converted.items),
         users |-> converted.users]))

MinContentLen == 50

\* line 506 with content.length >= 50
IsValidPost_FromFiftyOn(post) ==
    /\ post.id # S_error_post
    /\ (Trim(post.title) # <<>> \/ Len(post.content) >= MinContentLen)

\* lines 504-507: the posts that are exported
IsValidPost(post) ==
    /\ post.id # S_error_post
    /\ (Trim(post.title) # <<>> \/ Len(post.content) > MinContentLen)

\* lines 513-515: the first pass over the authors
RECURSIVE ResolveAll(_, _)
ResolveAll(posts, users) ==
    IF posts = <<>> THEN users
    ELSE ResolveAll(Tail(posts), getAuthorLogin(Head(posts).author, users).users)

\* convertToWxr on the consolidated posts: the document written, the count
\* returned and CREATED_USERS after the run
convertToWxr(posts, reads) ==
    Bind(SelectSeq(posts, IsValidPost), LAMBDA validPosts :
    Bind(createWxrFile(validPosts, ResolveAll(validPosts, <<>>), reads), LAMBDA wxrContent :
        [doc |-> wxrContent.doc, count |-> Len(validPosts), users |-> wxrContent.users]))

\* the clock's values for one exported post, <<for the id, for the date>>:
\* none is read for the date of a post that has a timestamp, nor for an id
\* that is found in the post
ReadsFor(post) ==
    (IF IdReadsClock(post) THEN NowPool ELSE {<<>>})
        \X (IF post.timestamp = <<>> THEN NowPool ELSE {<<>>})

\* the clock's values for the posts of one export
RECURSIVE ExportReads(_)
ExportReads(posts) ==
    IF posts = <<>> THEN {<<>>}
    ELSE {<<h>> \o r : h \in ReadsFor(Head(posts)), r \in ExportReads(Tail(posts))}

MaxFiles == 2

MaxRuns == 2

\* ----------------------------------------------------------------- state

VARIABLES
    files,          \* scraped_posts: the snapshot files, in readdir order
    consolidated,   \* consolidated_posts_2017_plus.json: <<>> or <<result>>
    clockReads,     \* the Date.now() values the consolidation run read
    allPosts,       \* the consolidation run's array of cleaned posts
    postKeys,       \* the key the run gave to each of them (generatePostId)
    CREATED_USERS,  \* the Map of created users, in insertion order
    wxr,            \* lnexun_posts_import.xml: <<>> or <<document>>
    runs,           \* the number of convertToWxr runs so far
    returned,       \* how the last convertToWxr run ended: <<>> or <<outcome>>
    call,           \* the last call of a function made on its own: <<>> or
                    \* <<[op, arg, result]>>
    responses       \* what axios.get answered to the attempts of the
                    \* fetchSnapshot call, in order

vars == <<files, consolidated, clockReads, allPosts, postKeys, CREATED_USERS, wxr, runs,
          returned, call, responses>>

Init ==
    /\ files = <<>>
    /\ consolidated = <<>>
    /\ clockReads = <<>>
    /\ allPosts = <<>>
    /\ postKeys = <<>>
    /\ CREATED_USERS = <<>>
    /\ wxr = <<>>
    /\ runs = 0
    /\ returned = <<>>
    /\ responses = <<>>
    /\ call = <<>>

\* one more snapshot file is put into scraped_posts: by the fetch run, or by
\* any other hand (the consolidator reads every snapshot_*.json it finds)
SaveSnapshot ==
    /\ consolidated = <<>>
    /\ Len(files) < MaxFiles
    /\ \E s \in SnapshotPool :
          /\ \A i \in 1..Len(files) : files[i] # s
          /\ files' = Append(files, s)
    /\ UNCHANGED <<consolidated, clockReads, allPosts, postKeys, CREATED_USERS, wxr, runs,
                   returned, call, responses>>

ConsolidateAllPosts ==
    /\ consolidated = <<>>
    /\ \E cleaned \in {CollectPosts(files)} :
       \E nows \in NowSeqs(ClockCalls(cleaned)) :
       \E keys \in {PostKeys(cleaned, nows)} :
          /\ consolidated' = <<Result(files, cleaned, keys)>>
          /\ clockReads' = nows
          /\ allPosts' = cleaned
          /\ postKeys' = keys
    /\ UNCHANGED <<files, CREATED_USERS, wxr, runs, returned, call, responses>>

\* lines 493-499: the input file is there, parses, and has a posts array
IsReadable(file) == file # <<>> /\ "posts" \in DOMAIN file[1]

\* lines 557-564: what the caller of convertToWxr gets, the count returned
\* or the error thrown ("" for none)
Outcome(error, count) == [error |-> error, count |-> count]

\* one run of convertToWxr on the consolidated file
ConvertToWxr ==
    /\ IsReadable(consolidated)
    /\ runs < MaxRuns
    /\ \E reads \in ExportReads(SelectSeq(consolidated[1].posts, IsValidPost)) :
       \E run \in {convertToWxr(consolidated[1].posts, reads)} :
          /\ wxr' = <<run.doc>>
          /\ CREATED_USERS' = run.users
          /\ returned' = <<Outcome("", run.count)>>
    /\ runs' = runs + 1
    /\ UNCHANGED <<files, consolidated, clockReads, allPosts, postKeys, call, responses>>

\* InputError without the test Array.isArray(data.posts) of line 497
InputError_AnyPosts(file) ==
    IF file = <<>> THEN "ENOENT"
    ELSE IF file[1].damage = "not JSON" THEN "SyntaxError"
    ELSE IF file[1].damage = "no posts" THEN "Invalid JSON structure: missing posts array"
    ELSE ""

\* lines 493-499: the error convertToWxr throws on an input it cannot use
InputError(file) ==
    IF file = <<>> THEN "ENOENT"
    ELSE IF file[1].damage = "not JSON" THEN "SyntaxError"
    ELSE "Invalid JSON structure: missing posts array"

\* one run of convertToWxr that finds no usable consolidated file
ConvertToWxrRejects ==
    /\ ~IsReadable(consolidated)
    /\ runs < MaxRuns
    /\ CREATED_USERS' = <<>>
    /\ returned' = <<Outcome(InputError(consolidated), 0)>>
    /\ runs' = runs + 1
    /\ UNCHANGED <<files, consolidated, clockReads, allPosts, postKeys, wxr, call, responses>>

Next ==
    \/ SaveSnapshot
    \/ ConsolidateAllPosts
    \/ ConvertToWxr

Spec == Init /\ [][Next]_vars

\* ------------------------------------------- export runs on other inputs

\* The export run started on one snapshot's posts, and on a consolidated file
\* that is absent or is not the consolidator's.

S_post_5 == <<"p","o","s","t","-","5">>

S_entry_3 == <<"e","n","t","r","y","-","3">>

S_entry_4 == <<"e","n","t","r","y","-","4">>

S_entry_5 == <<"e","n","t","r","y","-","5">>

S_entry_6 == <<"e","n","t","r","y","-","6">>

S_entry_7 == <<"e","n","t","r","y","-","7">>

T_Markup == <<"Q","&","A"," ","<","b",">">>

T_Blank == <<" "," ">>

T_Error == <<"E","r","r","o","r">>

C_close == <<"x","]","]",">","y">>

E_close == <<"]","]",">">>

Cat_RnD == <<"R","&","D">>

Tag_lt == <<"a","<","b">>

A_constructor == <<"c","o","n","s","t","r","u","c","t","o","r">>

\* a post whose texts hold markup characters and the CDATA close sequence,
\* by an author named like an inherited property
PX1 == [RawPost(S_post_5, T_Markup, C_close, <<>>, A_constructor,
                <<Cat_RnD>>, <<Tag_lt>>, TS_20200101) EXCEPT !.excerpt = E_close]

\* the post that stands for a failed extraction
PX2 == RawPost(S_error_post, T_Error, C_short, <<>>, <<>>, <<>>, <<>>, TS_20200101)

\* no title: 51 and 50 characters of content
PX3 == RawPost(S_entry_3, <<>>, Rep("y", 51), <<>>, A_New, <<Cat_Blog>>, <<>>, TS_20200101)

PX4 == RawPost(S_entry_4, <<>>, Rep("z", 50), <<>>, A_Other, <<>>, <<>>, TS_20200101)

\* a title of spaces
PX5 == RawPost(S_entry_5, T_Blank, C_short, <<>>, A_Other, <<>>, <<>>, TS_20200101)

PX6 == RawPost(S_entry_6, T_About, C_about, <<>>, A_Other,
               <<Cat_Blog, Cat_RnD>>, <<Tag_news>>, TS_20200101)

PX7 == RawPost(S_entry_7, T_Hi, <<>>, C_about2, <<>>, <<>>, <<Tag_news, Tag_lt>>, TS_20200101)

ExportPosts == {PX1, PX2, PX3, PX4, PX5, PX6, PX7}

MaxExportPosts == 2

\* the posts of one snapshot: up to MaxExportPosts different posts
ExportSnapshots ==
    {Snapshot(TS_20200101, TRUE, posts) :
        posts \in {s \in UNION {[1..n -> ExportPosts] : n \in 0..MaxExportPosts} :
                      \A i, j \in DOMAIN s : s[i] = s[j] => i = j}}

\* a file at the consolidated file's path that JSON.parse rejects, one without
\* a posts property, and one whose posts property is a string
DamagedFiles == {<<[damage |-> d]>> : d \in {"not JSON", "no posts", "posts is a string"}}

\* snapshot files whose posts property is a string and an object
NotArraySnapshots ==
    {[timestamp |-> TS_20230101, success |-> TRUE, posts |-> <<>>, postsIs |-> is] :
        is \in {"a string", "an object"}}

InitExport ==
    /\ files \in {<<s>> : s \in ExportSnapshots}
                \cup {<<d, s>> : d \in NotArraySnapshots,
                                 s \in {e \in ExportSnapshots : Len(e.posts) = 1}}
    /\ consolidated \in {<<>>} \cup DamagedFiles
    /\ clockReads = <<>>
    /\ allPosts = <<>>
    /\ postKeys = <<>>
    /\ CREATED_USERS = <<>>
    /\ wxr = <<>>
    /\ runs = 0
    /\ returned = <<>>
    /\ responses = <<>>
    /\ call = <<>>

NextExport ==
    \/ ConsolidateAllPosts
    \/ ConvertToWxr
    \/ ConvertToWxrRejects

SpecExport == InitExport /\ [][NextExport]_vars

\* ------------------------------------------------ extractWordPressPosts

M_not_available == <<"C","h","e","e","r","i","o"," ","$"," ","f","u","n","c","t","i","o","n"," ","i","s"," ","n","o","t"," ","a","v","a","i","l","a","b","l","e">>

M_test_failed == <<"C","h","e","e","r","i","o"," ","t","e","s","t"," ","f","a","i","l","e","d",":"," ">>

M_failed_to_extract == <<"F","a","i","l","e","d"," ","t","o"," ","e","x","t","r","a","c","t"," ","c","o","n","t","e","n","t",":"," ">>

M_reading_message == <<"C","a","n","n","o","t"," ","r","e","a","d"," ","p","r","o","p","e","r","t","i","e","s"," ","o","f"," ","n","u","l","l"," ","(","r","e","a","d","i","n","g"," ","'","m","e","s","s","a","g","e","'",")">>

M_boom == <<"b","o","o","m">>

U_source == <<"h","t","t","p",":","/","/","l","n","e","x","u","n",".","c","o","m","/">>

\* fetch_posts.js 46-55, postSelectors
postSelectors ==
    << <<"a","r","t","i","c","l","e">>,
       <<".","p","o","s","t">>,
       <<".","h","e","n","t","r","y">>,
       <<".","e","n","t","r","y">>,
       <<"[","c","l","a","s","s","*","=","\"","p","o","s","t","\"","]">>,
       <<"#","c","o","n","t","e","n","t"," ",".","p","o","s","t">>,
       <<".","c","o","n","t","e","n","t"," ",".","p","o","s","t">>,
       <<".","m","a","i","n"," ",".","p","o","s","t">> >>

\* A value thrown by the document handle: an Error with a message, or a
\* value that has no message to read (throw null).
Thrown(isError, message) == [isError |-> isError, message |-> message]

\* What a query $(selector) answers: it throws, or returns the elements
\* matched.  An element: its id attribute, the title and content found in
\* it, and what reading it throws (<<>> when it reads well).
Answer(thrown, elements) == [thrown |-> thrown, elements |-> elements]

Element(id, title, content, thrown) ==
    [id |-> id, title |-> title, content |-> content, thrown |-> thrown]

\* $: whether it is a function, what $('html') answers, what each of the
\* postSelectors answers, and what the page of extractPageContent gives
\* (thrown, or the title and content of the main block, <<>> without one)
Handle(callable, html, queries, page) ==
    [callable |-> callable, html |-> html, queries |-> queries, page |-> page]

\* the outcome of a block of code: the value thrown out of it, if any, and
\* the posts collected so far
Block(thrown, posts, foundPosts) ==
    [thrown |-> thrown, posts |-> posts, foundPosts |-> foundPosts]

\* `caught.message` in a catch block: reading it from null throws TypeError
ReadingMessageThrows(caught) == ~caught.isError

TypeErrorOfNull == Thrown(TRUE, M_reading_message)

\* lines 71-89, the post of an element
ExtractedPost(element, index, selector, url, timestamp, now) ==
    [id |-> IF element.id # <<>> THEN element.id
            ELSE S_post_dash \o <<(<<"0","1","2","3","4","5","6","7","8","9">>)[index + 1]>>,
     classes |-> <<>>, title |-> element.title, content |-> element.content,
     permalink |-> url,
     metadata |-> [sourceUrl |-> url, timestamp |-> timestamp, selector |-> selector,
                   extractedAt |-> now, error |-> <<>>]]

\* lines 319-338, the post of the page
PagePost(page, url, timestamp, now) ==
    [id |-> S_page_content, classes |-> S_page_content,
     title |-> Trim(IF page.title # <<>> THEN page.title ELSE <<"P","a","g","e"," ","C","o","n","t","e","n","t">>),
     content |-> page.content, permalink |-> url,
     metadata |-> [sourceUrl |-> url, timestamp |-> timestamp,
                   selector |-> S_page_content, extractedAt |-> now, error |-> <<>>]]

\* lines 120-139, the post returned for a failure
ErrorPost(error, url, timestamp, now) ==
    [id |-> S_error_post, classes |-> <<"e","r","r","o","r">>, title |-> <<"E","x","t","r","a","c","t","i","o","n"," ","E","r","r","o","r">>,
     content |-> M_failed_to_extract \o error.message, permalink |-> url,
     metadata |-> [sourceUrl |-> url, timestamp |-> timestamp, selector |-> <<"e","r","r","o","r">>,
                   extractedAt |-> now, error |-> error.message]]

\* lines 66-95, elements.each from the element k on: an element that reads
\* well gives a post, an Error is logged and the element skipped (line 93),
\* and a thrown value without a message leaves the loop through line 93
RECURSIVE EachElement(_, _, _, _, _, _, _)
EachElement(elements, k, selector, url, timestamp, now, posts) ==
    IF k > Len(elements) THEN Block(<<>>, posts, TRUE)
    ELSE IF elements[k].thrown = <<>>
    THEN EachElement(elements, k + 1, selector, url, timestamp, now,
                     Append(posts, ExtractedPost(elements[k], k - 1, selector,
                                                 url, timestamp, now)))
    ELSE IF ReadingMessageThrows(elements[k].thrown[1])
    THEN Block(<<TypeErrorOfNull>>, posts, TRUE)
    ELSE EachElement(elements, k + 1, selector, url, timestamp, now, posts)

\* lines 59-102, the loop over postSelectors from the selector i on: the
\* first selector with elements is used (line 96); what a query or the
\* loop over its elements throws is caught at line 98 and the next
\* selector tried, unless the value caught has no message to log
RECURSIVE EachSelector(_, _, _, _, _, _)
EachSelector(handle, i, url, timestamp, now, block) ==
    IF i > Len(postSelectors) THEN block
    ELSE IF handle.queries[i].thrown # <<>>
    THEN IF ReadingMessageThrows(handle.queries[i].thrown[1])
         THEN Block(<<TypeErrorOfNull>>, block.posts, block.foundPosts)
         ELSE EachSelector(handle, i + 1, url, timestamp, now, block)
    ELSE IF Len(handle.queries[i].elements) = 0
    THEN EachSelector(handle, i + 1, url, timestamp, now, block)
    ELSE Bind(EachElement(handle.queries[i].elements, 1, postSelectors[i], url, timestamp,
                          now, block.posts),
              LAMBDA each :
                 IF each.thrown = <<>> THEN each
                 ELSE EachSelector(handle, i + 1, url, timestamp, now,
                                   Block(<<>>, each.posts, TRUE)))

\* the page extracted whether or not a selector found elements
PageFallback_Always(handle, url, timestamp, now, block) ==
    IF block.thrown # <<>> THEN block
    ELSE IF handle.page.thrown # <<>>
    THEN IF ReadingMessageThrows(handle.page.thrown[1])
         THEN Block(<<TypeErrorOfNull>>, block.posts, FALSE)
         ELSE block
    ELSE IF handle.page.content = <<>> THEN block
    ELSE Block(<<>>, Append(block.posts, PagePost(handle.page, url, timestamp, now)), FALSE)

\* lines 105-114, the page when no selector found elements
PageFallback(handle, url, timestamp, now, block) ==
    IF block.thrown # <<>> \/ block.foundPosts THEN block
    ELSE IF handle.page.thrown # <<>>
    THEN IF ReadingMessageThrows(handle.page.thrown[1])
         THEN Block(<<TypeErrorOfNull>>, block.posts, FALSE)
         ELSE block
    ELSE IF handle.page.content = <<>> THEN block
    ELSE Block(<<>>, Append(block.posts, PagePost(handle.page, url, timestamp, now)), FALSE)

\* lines 28-116, the body of the try block
ExtractBody(handle, url, timestamp, now) ==
    IF ~handle.callable
    THEN Block(<<Thrown(TRUE, M_not_available)>>, <<>>, FALSE)
    ELSE IF handle.html.thrown # <<>>
    THEN IF ReadingMessageThrows(handle.html.thrown[1])
         THEN Block(<<TypeErrorOfNull>>, <<>>, FALSE)
         ELSE Block(<<Thrown(TRUE, M_test_failed \o handle.html.thrown[1].message)>>,
                    <<>>, FALSE)
    ELSE PageFallback(handle, url, timestamp, now,
                      EachSelector(handle, 1, url, timestamp, now, Block(<<>>, <<>>, FALSE)))

\* extractWordPressPosts without the catch of lines 118-140
extractWordPressPosts_Uncaught(handle, url, timestamp, now) ==
    Bind(ExtractBody(handle, url, timestamp, now), LAMBDA body :
        [threw |-> body.thrown # <<>>, posts |-> body.posts])

\* fetch_posts.js 26-141: the posts returned; threw tells whether the call
\* throws to its caller.  One reading of the clock stands for the readings
\* of a call.
extractWordPressPosts(handle, url, timestamp, now) ==
    Bind(ExtractBody(handle, url, timestamp, now), LAMBDA body :
        IF body.thrown # <<>>
        THEN [threw |-> FALSE, posts |-> <<ErrorPost(body.thrown[1], url, timestamp, now)>>]
        ELSE [threw |-> FALSE, posts |-> body.posts])

\* ------------------------------------------ functions called on their own

\* The exported and the internal functions, each called on an input of its
\* own: call holds the function and the argument, and once the call is done
\* its result.

Call(op, arg, done, result) == [op |-> op, arg |-> arg, done |-> done, result |-> result]

\* the call of op that is still to be made
IsPending(op) == call # <<>> /\ call[1].op = op /\ ~call[1].done

TS_full == <<"2","0","2","3","0","3","3","0","1","7","5","4","2","4">>

TS_day == <<"2","0","2","3","0","3","3","0">>

TS_hour == <<"2","0","2","3","0","3","3","0","1","7">>

TS_minute == <<"2","0","2","3","0","3","3","0","1","7","5","4">>

TS_9 == <<"2","0","2","3","0","3","3","0","1">>

TS_11 == <<"2","0","2","3","0","3","3","0","1","7","5">>

TS_13 == <<"2","0","2","3","0","3","3","0","1","7","5","4","2">>

TS_year == <<"2","0","2","3">>

D_example == <<"2","0","2","3","-","0","3","-","3","0","T","1","7",":","5","4",":","2","4","+","0","0",":","0","0">>

\* capture timestamps: a whole one, ones cut after the day, the hour and the
\* minute, ones cut inside a field, one without month and day, and none
TimestampPool ==
    {TS_full, TS_day, TS_hour, TS_minute, TS_9, TS_11, TS_13, TS_year, <<>>,
     TS_20200101, TS_20230601}

FormatWordPressDate ==
    /\ IsPending("formatWordPressDate")
    /\ \E now \in NowPool :
          call' = <<Call("formatWordPressDate", call[1].arg, TRUE,
                         DateText(formatWordPressDate(call[1].arg, now)))>>
    /\ UNCHANGED <<files, consolidated, clockReads, allPosts, postKeys, CREATED_USERS, wxr,
                   runs, returned, responses>>

\* values thrown: an Error, and null
AnError == Thrown(TRUE, M_boom)

ANull == Thrown(FALSE, <<>>)

\* elements: one with an id, one without, one whose reading throws an
\* Error and one whose reading throws null
ElementLists ==
    { <<Element(S_post_5, T_HelloWorld, C_short, <<>>)>>,
      <<Element(<<>>, T_About, C_about, <<>>), Element(<<>>, <<>>, <<>>, <<AnError>>),
        Element(<<>>, T_Hi, C_about2, <<>>)>>,
      <<Element(<<>>, T_Hi, C_about2, <<>>), Element(<<>>, <<>>, <<>>, <<ANull>>),
        Element(S_post_5, T_HelloWorld, C_short, <<>>)>> }

\* what a query answers: nothing, elements, or it throws
Answers ==
    {Answer(<<>>, <<>>), Answer(<<AnError>>, <<>>), Answer(<<ANull>>, <<>>)}
    \cup {Answer(<<>>, elements) : elements \in ElementLists}

\* what the page gives: no main block, a main block with and without a
\* title, or it throws
Pages ==
    { [thrown |-> <<>>, title |-> <<>>, content |-> <<>>],
      [thrown |-> <<>>, title |-> T_Blank, content |-> C_about],
      [thrown |-> <<>>, title |-> <<>>, content |-> C_about],
      [thrown |-> <<AnError>>, title |-> <<>>, content |-> <<>>],
      [thrown |-> <<ANull>>, title |-> <<>>, content |-> <<>>] }

\* the handles: one that is not a function, ones whose html query throws or
\* finds nothing, ones of which one selector answers in its own way
\* while the others all answer nothing or all throw, and ones of which two
\* selectors match elements
HandlePool ==
    { Handle(callable, html, [k \in 1..Len(postSelectors) |-> Answer(<<>>, <<>>)],
             [thrown |-> <<>>, title |-> <<>>, content |-> <<>>]) :
        callable \in BOOLEAN,
        html \in {Answer(<<>>, <<>>), Answer(<<AnError>>, <<>>), Answer(<<ANull>>, <<>>)} }
    \cup
    { Handle(TRUE, Answer(<<>>, <<Element(<<>>, <<>>, <<>>, <<>>)>>),
             [k \in 1..Len(postSelectors) |-> IF k = i THEN own ELSE rest], page) :
        i \in {1, Len(postSelectors)},
        own \in Answers,
        rest \in {Answer(<<>>, <<>>), Answer(<<AnError>>, <<>>)},
        page \in Pages }
    \cup
    { Handle(TRUE, Answer(<<>>, <<Element(<<>>, <<>>, <<>>, <<>>)>>),
             [k \in 1..Len(postSelectors) |->
                 IF k = at[1] THEN Answer(<<>>, early)
                 ELSE IF k = at[2] THEN Answer(<<>>, late)
                 ELSE Answer(<<>>, <<>>)], page) :
        at \in {<<1, 2>>, <<2, Len(postSelectors)>>},
        early \in ElementLists,
        late \in ElementLists,
        page \in {[thrown |-> <<>>, title |-> <<>>, content |-> <<>>],
                  [thrown |-> <<>>, title |-> <<>>, content |-> C_about]} }

ExtractWordPressPosts ==
    /\ IsPending("extractWordPressPosts")
    /\ \E now \in NowPool :
          call' = <<Call("extractWordPressPosts", call[1].arg, TRUE,
                         extractWordPressPosts(call[1].arg.handle, call[1].arg.url,
                                               call[1].arg.timestamp, now))>>
    /\ UNCHANGED <<files, consolidated, clockReads, allPosts, postKeys, CREATED_USERS, wxr,
                   runs, returned, responses>>

X_src_www == <<"<","i","m","g"," ","s","r","c","=","\"","/","/","w","w","w",".","l","n","e","x","u","n",".","c","o","m","/","i",".","p","n","g","\"",">">>

X_href_www == <<"<","a"," ","h","r","e","f","=","\"","/","/","w","w","w",".","l","n","e","x","u","n",".","c","o","m",":","8","0","/","a","\"",">">>

X_triple == <<"h","t","t","p",":","/","/","h","t","t","p",":","/","/","h","t","t","p",":","/","/","l","n","e","x","u","n",".","c","o","m","/","a">>

X_nested == <<"h","t","t","p","s",":","/","/","w","e","b",".","a","r","c","h","i","v","e",".","o","r","g","/","w","e","b","/","2","0","2","3","0","3","2","2","1","2","0","5","5","0","/","h","t","t","p","s",":","/","/","w","e","b",".","a","r","c","h","i","v","e",".","o","r","g","/","w","e","b","/","2","0","2","3","0","3","2","2","1","2","0","5","5","0","/","h","t","t","p",":","/","/","w","w","w",".","l","n","e","x","u","n",".","c","o","m","/","a">>

X_bare == <<"s","e","e"," ","w","e","b",".","a","r","c","h","i","v","e",".","o","r","g","/","w","e","b","/","2","0","2","3","0","3","2","2","1","2","0","5","5","0","/","w","w","w",".","l","n","e","x","u","n",".","c","o","m","/","a"," ","(","o","l","d",")">>

X_plain == <<"h","t","t","p","s",":","/","/","l","n","e","x","u","n",".","c","o","m","/","a"," ","b">>

\* texts: archive urls with and without flags, nested and bare ones,
\* protocol-relative links to www.lnexun.com, a run of protocols, and text
\* without any url of the archive
TextPool ==
    {U_wrapped, U_img, X_src_www, X_href_www, X_triple, X_nested, X_bare, X_plain,
     C_short, <<>>}

\* cleanWebArchiveUrls called on a text, and once more on what it returned
CleanWebArchiveUrls ==
    /\ IsPending("cleanWebArchiveUrls")
    /\ \E once \in {cleanWebArchiveUrls(call[1].arg)} :
          call' = <<Call("cleanWebArchiveUrls", call[1].arg, TRUE,
                         [once |-> once, twice |-> cleanWebArchiveUrls(once)])>>
    /\ UNCHANGED <<files, consolidated, clockReads, allPosts, postKeys, CREATED_USERS, wxr,
                   runs, returned, responses>>

A_MadhavNarayan == <<"M","a","d","h","a","v","N","a","r","a","y","a","n">>

A_AUROJIT == <<" "," ","A","U","R","O","J","I","T"," ">>

A_Sid == <<"s","i","d">>

A_Panda == <<"P","A","N","D","A">>

A_Aurojit_2 == <<"A","u","r","o","j","i","t"," "," ","P","a","n","d","a">>
A_admin_bang == <<"a","d","m","i","n","!">>

A_bangs == <<"!","!">>

A_substring == <<"A","u","r","o","j","i","t","x"," ","P","a","n","d","a","s">>

A_tokens == <<"D","r"," ","A","u","r","o","j","i","t"," ","K"," ","P","a","n","d","a">>

A_sidney == <<"S","i","d","n","e","y">>

\* s in capital letters
InCapitals(s) ==
    [k \in 1..Len(s) |->
        IF s[k] \in LowerChars THEN Upper[CHOOSE i \in 1..26 : Lower[i] = s[k]] ELSE s[k]]

\* the lower-cased names of the fixed identities
FixedNames ==
    UNION {{LowerNames[i].displayName, LowerNames[i].fullName, LowerNames[i].firstName,
            LowerNames[i].lastName} : i \in 1..Len(AUTHORS)} \ {<<>>}

\* author strings: the login keys as written, in capitals and between
\* spaces, the names of the fixed identities in lower case and as written,
\* names with two spaces, names of nobody, the inherited property names,
\* none, names among other words, names inside longer words, and strings
\* with characters that a login does not keep
AuthorPool ==
    {AUTHORS[i].login : i \in 1..Len(AUTHORS)}
    \cup {<<" ">> \o InCapitals(AUTHORS[i].login) \o <<" ">> : i \in 1..Len(AUTHORS)}
    \cup FixedNames
    \cup {AUTHORS[i].display_name : i \in 1..Len(AUTHORS)}
    \cup {AUTHORS[i].first_name \o <<" ">> \o AUTHORS[i].last_name : i \in 1..Len(AUTHORS)}
    \cup {A_MadhavNarayan, A_AUROJIT, A_Sid, A_Panda, A_Aurojit_2, A_Aurojit, A_New, A_Other,
          A_Other2, A_constructor, S_proto, T_Blank, <<>>,
          A_admin_bang, A_bangs, A_substring, A_tokens, A_sidney}

\* getAuthorLogin called on an author string
GetAuthorLogin ==
    /\ IsPending("getAuthorLogin")
    /\ \E r \in {getAuthorLogin(call[1].arg, CREATED_USERS)} :
          /\ call' = <<Call("getAuthorLogin", call[1].arg, TRUE,
                            [login |-> r.login, before |-> CREATED_USERS])>>
          /\ CREATED_USERS' = r.users
    /\ UNCHANGED <<files, consolidated, clockReads, allPosts, postKeys, wxr, runs, returned,
                   responses>>

\* fetch_posts.js 10
MAX_RETRIES == 3

\* What axios.get answers to one attempt: it rejects with an Error, or it
\* resolves with a response whose data is missing, an object or a string;
\* for a string, what cheerio.load does with it: it throws, or it returns
\* a handle.
Response(rejected, dataIs, thrown, handle) ==
    [rejected |-> rejected, dataIs |-> dataIs, thrown |-> thrown, handle |-> handle]

\* a page with one post, and a page with no post and no main block
PageHandles ==
    { Handle(TRUE, Answer(<<>>, <<Element(<<>>, <<>>, <<>>, <<>>)>>),
             [k \in 1..Len(postSelectors) |-> answer],
             [thrown |-> <<>>, title |-> <<>>, content |-> <<>>]) :
        answer \in {Answer(<<>>, <<>>),
                    Answer(<<>>, <<Element(S_post_5, T_HelloWorld, C_short, <<>>)>>)} }

\* the answers: a rejection, no data, data that is no string, a string
\* that cheerio does not load, a handle that is no function, and the pages
ResponsePool ==
    { Response(<<AnError>>, "undefined", <<>>, <<>>),
      Response(<<>>, "undefined", <<>>, <<>>),
      Response(<<>>, "object", <<>>, <<>>),
      Response(<<>>, "string", <<AnError>>, <<>>),
      Response(<<>>, "string", <<>>,
               <<Handle(FALSE, Answer(<<>>, <<>>),
                        [k \in 1..Len(postSelectors) |-> Answer(<<>>, <<>>)],
                        [thrown |-> <<>>, title |-> <<>>, content |-> <<>>])>>) }
    \cup {Response(<<>>, "string", <<>>, <<handle>>) : handle \in PageHandles}

\* lines 345-386, the try block of one attempt: the message of the Error
\* that reaches the catch of line 398 (<<>> for none), and the posts
\* extracted otherwise
AttemptOutcome(response, waybackUrl, timestamp, now) ==
    IF response.rejected # <<>>
    THEN [error |-> <<response.rejected[1].message>>, posts |-> <<>>]
    ELSE IF response.dataIs = "undefined"
    THEN [error |-> << <<"N","o"," ","r","e","s","p","o","n","s","e"," ","d","a","t","a"," ","r","e","c","e","i","v","e","d">> >>,
          posts |-> <<>>]
    ELSE IF response.dataIs # "string"
    THEN [error |-> << <<"I","n","v","a","l","i","d"," ","r","e","s","p","o","n","s","e"," ","d","a","t","a"," ","t","y","p","e",":"," ","o","b","j","e","c","t">> >>,
          posts |-> <<>>]
    ELSE IF response.thrown # <<>>
    THEN [error |-> << <<"F","a","i","l","e","d"," ","t","o"," ","p","a","r","s","e"," ","H","T","M","L",":"," ">>
                       \o response.thrown[1].message >>,
          posts |-> <<>>]
    ELSE IF ~response.handle[1].callable
    THEN [error |-> << <<"C","h","e","e","r","i","o"," ","f","a","i","l","e","d"," ","t","o"," ","i","n","i","t","i","a","l","i","z","e"," ","p","r","o","p","e","r","l","y">> >>,
          posts |-> <<>>]
    ELSE [error |-> <<>>,
          posts |-> extractWordPressPosts(response.handle[1], waybackUrl, timestamp,
                                          now).posts]

\* fetchSnapshot with one retry more than MAX_RETRIES
FetchSnapshot_RetriesOnceMore ==
    /\ IsPending("fetchSnapshot")
    /\ \E response \in ResponsePool, now \in NowPool :
       \E waybackUrl \in {<<"h","t","t","p","s",":","/","/","w","e","b",".","a","r","c","h","i","v","e",".","o","r","g","/","w","e","b","/">>
                            \o call[1].arg.timestamp \o <<"/">> \o call[1].arg.originalUrl} :
       \E outcome \in {AttemptOutcome(response, waybackUrl, call[1].arg.timestamp, now)} :
          /\ responses' = Append(responses, response)
          /\ call' = IF outcome.error # <<>> /\ call[1].arg.retryCount <= MAX_RETRIES
                     THEN <<Call("fetchSnapshot",
                                 [call[1].arg EXCEPT !.retryCount = @ + 1], FALSE, <<>>)>>
                     ELSE <<Call("fetchSnapshot", call[1].arg, TRUE,
                                 [timestamp |-> call[1].arg.timestamp,
                                  originalUrl |-> call[1].arg.originalUrl,
                                  waybackUrl |-> waybackUrl,
                                  posts |-> outcome.posts,
                                  success |-> outcome.error = <<>>,
                                  error |-> IF outcome.error = <<>> THEN <<>>
                                            ELSE outcome.error[1]])>>
    /\ UNCHANGED <<files, consolidated, clockReads, allPosts, postKeys, CREATED_USERS, wxr,
                   runs, returned>>

\* fetch_posts.js 342-418, one invocation of fetchSnapshot: the url of
\* lines 21-23 is requested; a result is returned after the try block or,
\* when retryCount has reached MAX_RETRIES, after the catch block; below
\* that the catch block waits and calls fetchSnapshot with retryCount + 1,
\* whose result it returns.  call holds the innermost invocation, and the
\* result the fields of lines 388-397 and 407-416 but the size and the
\* content type of the response (error is <<>> for null).
FetchSnapshot ==
    /\ IsPending("fetchSnapshot")
    /\ \E response \in ResponsePool, now \in NowPool :
       \E waybackUrl \in {<<"h","t","t","p","s",":","/","/","w","e","b",".","a","r","c","h","i","v","e",".","o","r","g","/","w","e","b","/">>
                            \o call[1].arg.timestamp \o <<"/">> \o call[1].arg.originalUrl} :
       \E outcome \in {AttemptOutcome(response, waybackUrl, call[1].arg.timestamp, now)} :
          /\ responses' = Append(responses, response)
          /\ call' = IF outcome.error # <<>> /\ call[1].arg.retryCount < MAX_RETRIES
                     THEN <<Call("fetchSnapshot",
                                 [call[1].arg EXCEPT !.retryCount = @ + 1], FALSE, <<>>)>>
                     ELSE <<Call("fetchSnapshot", call[1].arg, TRUE,
                                 [timestamp |-> call[1].arg.timestamp,
                                  originalUrl |-> call[1].arg.originalUrl,
                                  waybackUrl |-> waybackUrl,
                                  posts |-> outcome.posts,
                                  success |-> outcome.error = <<>>,
                                  error |-> IF outcome.error = <<>> THEN <<>>
                                            ELSE outcome.error[1]])>>
    /\ UNCHANGED <<files, consolidated, clockReads, allPosts, postKeys, CREATED_USERS, wxr,
                   runs, returned>>

\* one call is to be made; a user created before may be in CREATED_USERS
InitCalls ==
    /\ files = <<>>
    /\ consolidated = <<>>
    /\ clockReads = <<>>
    /\ allPosts = <<>>
    /\ postKeys = <<>>
    /\ wxr = <<>>
    /\ runs = 0
    /\ returned = <<>>
    /\ responses = <<>>
    /\ \/ /\ CREATED_USERS = <<>>
          /\ \/ \E timestamp \in TimestampPool :
                   call = <<Call("formatWordPressDate", timestamp, FALSE, <<>>)>>
             \/ \E handle \in HandlePool :
                   call = <<Call("extractWordPressPosts",
                                 [handle |-> handle, url |-> U_source,
                                  timestamp |-> TS_20200101], FALSE, <<>>)>>
             \/ \E text \in TextPool :
                   call = <<Call("cleanWebArchiveUrls", text, FALSE, <<>>)>>
             \/ call = <<Call("fetchSnapshot",
                              [timestamp |-> TS_20200101, originalUrl |-> U_source,
                               retryCount |-> 0], FALSE, <<>>)>>
       \/ /\ CREATED_USERS \in {<<>>, createNewUser(A_Other, <<>>).users}
          /\ \E authorString \in AuthorPool :
                call = <<Call("getAuthorLogin", authorString, FALSE, <<>>)>>

NextCalls ==
    \/ FormatWordPressDate
    \/ ExtractWordPressPosts
    \/ CleanWebArchiveUrls
    \/ GetAuthorLogin
    \/ FetchSnapshot

SpecCalls == InitCalls /\ [][NextCalls]_vars

\* the calls with the fetch going on: axios.get settles within its timeout
\* of line 349 and the timer of line 403 fires, so an invocation of
\* fetchSnapshot that is pending is completed
SpecCallsFair == InitCalls /\ [][NextCalls]_vars /\ WF_vars(FetchSnapshot)

\* ------------------------------------------- claims on the consolidator

\* The claims below are about the consolidation run that wrote
\* `consolidated`: rp stands for the cleaned posts the run read (allPosts)
\* and rk for the keys it gave them (postKeys).

\* the members of the group keyed k, in input order
Members(rp, rk, k) == Pick(rp, {i \in 1..Len(rp) : rk[i] = k})

Output == IF consolidated = <<>> THEN <<>> ELSE consolidated[1].posts

TotalLen(p) == Len(p.content) + Len(p.fullHtml)

Scalars(p) ==
    <<p.id, p.classes, p.title, p.content, p.excerpt, p.author, p.permalink,
      p.fullHtml, p.timestamp, p.sourceUrl>>

NoRepeat(s) == \A i, j \in 1..Len(s) : s[i] = s[j] => i = j

\* the number of entries of s equal to x
Count(s, x) == Cardinality({i \in 1..Len(s) : s[i] = x})

\* P(o, m) for every output post o formed from a group m of two or more
ForEachMerged(P(_, _)) ==
    \A o \in 1..Len(Output) :
        LET m == Members(allPosts, postKeys, Output[o].uniqueId)
        IN  Len(m) >= 2 => P(Output[o], m)

\* P(o, m) for some output post o formed from a group m of two or more
ForSomeMerged(P(_, _)) ==
    \E o \in 1..Len(Output) :
        LET m == Members(allPosts, postKeys, Output[o].uniqueId)
        IN  Len(m) >= 2 /\ P(Output[o], m)

\* C1: the post merged from a group of two or more carries the content and
\* the other scalar fields of the member with the largest content.length +
\* fullHtml.length, the first such member in input order when several tie.
C1_LargestMemberIsBase ==
    ForEachMerged(LAMBDA o, m :
        \E i \in 1..Len(m) :
            /\ \A j \in 1..Len(m) : TotalLen(m[j]) <= TotalLen(m[i])
            /\ \A j \in 1..(i - 1) : TotalLen(m[j]) < TotalLen(m[i])
            /\ Scalars(o) = Scalars(m[i]))

\* two captures with 60 and 120 characters of content were merged into a
\* post with the 120 characters, and another group had a tie for the largest
C1_Witness ==
    /\ ForSomeMerged(LAMBDA o, m :
          /\ Len(m) = 2
          /\ Len(m[1].content) = 60 /\ Len(m[2].content) = 120
          /\ Len(o.content) = 120)
    /\ ForSomeMerged(LAMBDA o, m :
          /\ TotalLen(m[1]) = TotalLen(m[2])
          /\ m[1].title # m[2].title
          /\ o.title = m[1].title)

\* C2: the post merged from a group of two or more has every category and
\* every tag of every member, each value once.
C2_UnionOfTerms ==
    ForEachMerged(LAMBDA o, m :
        /\ SetOf(o.categories) = UNION {SetOf(m[i].categories) : i \in 1..Len(m)}
        /\ SetOf(o.tags) = UNION {SetOf(m[i].tags) : i \in 1..Len(m)}
        /\ NoRepeat(o.categories)
        /\ NoRepeat(o.tags))

\* a merged group whose members share one tag and differ in another, and a
\* merged group of which one member lists a tag twice
C2_Witness ==
    /\ ForSomeMerged(LAMBDA o, m :
          /\ SetOf(m[1].tags) \cap SetOf(m[2].tags) # {}
          /\ SetOf(m[2].tags) \ SetOf(m[1].tags) # {})
    /\ ForSomeMerged(LAMBDA o, m : \E i \in 1..Len(m) : ~NoRepeat(m[i].tags))

\* C3 as stated: mergedFrom is the group size and sourceTimestamps has one
\* entry per member of the group.
C3_OneTimestampPerMember ==
    ForEachMerged(LAMBDA o, m :
        /\ o.mergedFrom = Len(m)
        /\ Len(o.sourceTimestamps) = Len(m))

\* C3 as amended: mergedFrom is the group size, and sourceTimestamps holds
\* the capture timestamp of every member that has one, one entry per such
\* member and no entry for a member without a timestamp.
C3_TimestampsOfStampedMembers ==
    ForEachMerged(LAMBDA o, m :
        LET stamps == MapSeq(m, LAMBDA p : p.timestamp)
        IN  /\ o.mergedFrom = Len(m)
            /\ \A t \in SetOf(stamps) \cup SetOf(o.sourceTimestamps) :
                  Count(o.sourceTimestamps, t) = IF t = <<>> THEN 0 ELSE Count(stamps, t))

\* a merged group with a member that has a timestamp and one that has none
C3_Witness ==
    ForSomeMerged(LAMBDA o, m :
        /\ \E i \in 1..Len(m) : m[i].timestamp = <<>>
        /\ \E i \in 1..Len(m) : m[i].timestamp # <<>>
        /\ Len(o.sourceTimestamps) < o.mergedFrom)

\* P(rp, rk) of the cleaned posts rp and the keys rk of the consolidation
\* run, once it has run
OfRun(P(_, _)) ==
    consolidated # <<>> => P(allPosts, postKeys)

SameFields(p, q) == p.id = q.id /\ p.title = q.title /\ p.content = q.content

\* the number of output posts keyed k
Outputs(k) == Cardinality({o \in 1..Len(Output) : Output[o].uniqueId = k})

\* C4 as stated: the key of a post does not change from call to call, and two
\* posts with the same id, title and content have the same key whatever
\* their snapshot, and one output post.
C4_SameFieldsSameKey ==
    OfRun(LAMBDA rp, rk :
        /\ \A i \in 1..Len(rp) :
              Cardinality({generatePostId(rp[i], now) : now \in NowPool}) = 1
        /\ \A i, j \in 1..Len(rp) :
              SameFields(rp[i], rp[j]) => rk[i] = rk[j] /\ Outputs(rk[i]) = 1)

\* the key comes from the id, the title or the content
KeyedByFields(p) == HasOwnId(p) \/ HasTitleKey(p) \/ p.content # <<>>

\* C4 as amended: for a post keyed by its id, its title or its content the
\* key does not change from call to call, and two such posts with the same
\* id, title and content have the same key whatever their snapshot, and one
\* output post.
C4_StableWhenKeyedByFields ==
    OfRun(LAMBDA rp, rk :
        /\ \A i \in 1..Len(rp) :
              KeyedByFields(rp[i])
                  => Cardinality({generatePostId(rp[i], now) : now \in NowPool}) = 1
        /\ \A i, j \in 1..Len(rp) :
              KeyedByFields(rp[i]) /\ SameFields(rp[i], rp[j])
                  => rk[i] = rk[j] /\ Outputs(rk[i]) = 1)

\* two captures, of different timestamps, of a post keyed by its content
\* were put into one group
C4_Witness ==
    /\ consolidated # <<>>
    /\ LET rp == allPosts
           rk == postKeys
       IN  \E i, j \in 1..Len(rp) :
              /\ i # j
              /\ SameFields(rp[i], rp[j])
              /\ rp[i].timestamp # rp[j].timestamp
              /\ ~HasOwnId(rp[i]) /\ ~HasTitleKey(rp[i]) /\ rp[i].content # <<>>
              /\ rk[i] = rk[j]
              /\ Outputs(rk[i]) = 1

PlaceholderId(id) ==
    \/ id = <<>>
    \/ id = S_page_content
    \/ id = S_error_post
    \/ Len(id) >= 5 /\ SubSeq(id, 1, 5) = <<"p","o","s","t","-">>

LongSlug(p) == Trim(p.title) # <<>> /\ Len(TitleSlug(p.title)) > 3

C6_FailedSnapshotsExcluded ==
    consolidated # <<>> =>
        LET ok == SelectSeq(files, LAMBDA s : s.success)
            r == consolidateAllPosts(ok, clockReads)
        IN  /\ consolidated[1].posts = r.posts
            /\ [consolidated[1].statistics EXCEPT !.totalSnapshots = 0]
                 = [r.statistics EXCEPT !.totalSnapshots = 0]
            /\ \A f \in 1..Len(files) : ~files[f].success =>
                  \A k \in 1..Len(files[f].posts) : \A o \in 1..Len(Output) :
                      Scalars(Output[o]) # Scalars(cleanPost(files[f].posts[k]))

\* a run over an unsuccessful snapshot that holds a post and a successful one
C6_Witness ==
    /\ consolidated # <<>>
    /\ \E f \in 1..Len(files) : ~files[f].success /\ files[f].posts # <<>>
    /\ \E f \in 1..Len(files) : files[f].success /\ files[f].posts # <<>>
    /\ Output # <<>>
    /\ consolidated[1].statistics.totalSnapshots = 2

\* the index of the first post keyed k
FirstOf(rk, k) == MinOf({i \in 1..Len(rk) : rk[i] = k})

\* C7: the output is ordered by timestamp, newest first; a post without a
\* timestamp is ordered as "0", after every post that has one; posts with
\* equal timestamps keep the order in which their groups were formed.
C7_NewestFirstAndStable ==
    OfRun(LAMBDA rp, rk :
        \A a, b \in 1..Len(Output) : a < b =>
            /\ ~StrLess(TsKey(Output[a]), TsKey(Output[b]))
            /\ Output[a].timestamp = <<>> => Output[b].timestamp = <<>>
            /\ TsKey(Output[a]) = TsKey(Output[b])
                  => FirstOf(rk, Output[a].uniqueId) < FirstOf(rk, Output[b].uniqueId))

\* an output with a post moved forward by the sort, two posts of equal
\* timestamps and a post without a timestamp
C7_Witness ==
    /\ consolidated # <<>>
    /\ LET rp == allPosts
           rk == postKeys
       IN  /\ \E a, b \in 1..Len(Output) :
                /\ a < b
                /\ FirstOf(rk, Output[b].uniqueId) < FirstOf(rk, Output[a].uniqueId)
                /\ StrLess(Output[b].timestamp, Output[a].timestamp)
           /\ \E a, b \in 1..Len(Output) :
                a < b /\ Output[a].timestamp = Output[b].timestamp /\ Output[a].timestamp # <<>>
           /\ \E b \in 1..Len(Output) : Output[b].timestamp = <<>>

\* ------------------------------------------------ claims on the export

\* C8: the identities of AUTHORS and of CREATED_USERS together have pairwise
\* distinct ids, whatever author resolutions the export run has made.
C8_IdsPairwiseDistinct ==
    \A i, j \in 1..Len(AUTHORS \o CREATED_USERS) :
        (AUTHORS \o CREATED_USERS)[i].id = (AUTHORS \o CREATED_USERS)[j].id => i = j

\* C9: an identity made for an author string has an id of 1000 or more, and
\* a second resolution of the same string in the run leaves the pool as it
\* was.  The run resolves every author once before the header is written
\* and once more for the item, so the pool at the end of the run holds the
\* identities, ids and fields that the header declared.
C9_SecondResolutionIdempotent ==
    wxr # <<>> =>
        /\ \A i \in 1..Len(CREATED_USERS) : CREATED_USERS[i].id >= IdOffset
        /\ wxr[1].authors = AUTHORS \o CREATED_USERS

\* C10: a second run of convertToWxr on the same consolidated file writes
\* the document the run before it wrote (the generation timestamp, which
\* the document of the model leaves out, apart).
C10_SecondRunSameDocument ==
    [][runs >= 1 /\ runs' = runs + 1 => wxr' = wxr]_vars

\* C11: in the document one export run writes, every login an item names as
\* its creator is the login of an author the header declares
C11_CreatorsDeclared ==
    wxr # <<>> =>
        \A i \in 1..Len(wxr[1].items) :
            \E a \in 1..Len(wxr[1].authors) :
                wxr[1].authors[a].login = wxr[1].items[i].creator

\* the consolidated posts the last export run read
Exported == IF IsReadable(consolidated) THEN consolidated[1].posts ELSE <<>>

\* the export run has written its document and returned
HasExported == wxr # <<>> /\ returned # <<>> /\ returned[1].error = ""

\* the positions of the consolidated posts that are not error posts and have
\* a title that is not blank or more than 50 characters of content
Wanted ==
    {i \in 1..Len(Exported) :
        /\ Exported[i].id # S_error_post
        /\ \/ \E k \in 1..Len(Exported[i].title) : ~IsSpace(Exported[i].title[k])
           \/ Len(Exported[i].content) > MinContentLen}

\* C12: the items of the document are those of the wanted posts, one each
\* and in their order (an item carries its post's uniqueId as _wp_old_slug),
\* and the count returned is the number of items
C12_ItemsAreTheValidPosts ==
    HasExported =>
        /\ Len(wxr[1].items) = Cardinality(Wanted)
        /\ \A k \in 1..Len(wxr[1].items) :
              wxr[1].items[k].old_slug = Pick(Exported, Wanted)[k].uniqueId
        /\ returned[1].count = Len(wxr[1].items)

\* an export of two posts without title, of 51 and of 50 characters, has
\* written the item of the first alone
C12_Witness ==
    /\ HasExported
    /\ Len(Exported) = 2
    /\ \E i, j \in 1..2 :
          /\ Exported[i].title = <<>> /\ Len(Exported[i].content) = MinContentLen + 1
          /\ Exported[j].title = <<>> /\ Len(Exported[j].content) = MinContentLen
          /\ Len(wxr[1].items) = 1
          /\ wxr[1].items[1].old_slug = Exported[i].uniqueId
    /\ returned[1].count = 1

\* the five entities escapeXml writes
Entities == {S_amp, S_lt, S_gt, S_quot, S_apos}

\* s is entity-escaped: no markup character, and no ampersand but those of
\* the entities
IsEscaped(s) ==
    \A i \in 1..Len(s) :
        /\ s[i] \notin {"<", ">", "\"", "'"}
        /\ s[i] = "&" => \E e \in Entities : OccursAt(s, e, i)

\* s is one CDATA section: the close sequence occurs at its end only
IsOneSection(s) ==
    /\ Len(s) >= Len(S_cdata_open) + Len(S_cdata_close)
    /\ OccursAt(s, S_cdata_open, 1)
    /\ \A i \in (Len(S_cdata_open) + 1)..Len(s) :
          OccursAt(s, S_cdata_close, i) <=> i = Len(s) - Len(S_cdata_close) + 1

\* C13: every text of a post or of a created user in the document is empty,
\* entity-escaped, or one CDATA section that its content does not close
C13_TextsEscapedOrInSections ==
    wxr # <<>> =>
        \A t \in SetOf(DocumentTexts(wxr[1])) :
            t.text = <<>> \/ IsEscaped(t.text) \/ IsOneSection(t.text)

\* the last call was of op
Called(op) == call # <<>> /\ call[1].op = op /\ call[1].done

\* the timestamp ends after its day, hour, minute or second
WholeFields(timestamp) == Len(timestamp) \in {8, 10, 12, 14} /\ IsDigits(timestamp)

\* C14: for a timestamp of whole fields formatWordPressDate returns the date
\* of the year, month and day given and of the hour, minute and second given,
\* 12, 00 and 00 standing for the ones that are missing
C14_FieldsOfTheTimestamp ==
    Called("formatWordPressDate") /\ WholeFields(call[1].arg) =>
        /\ ~call[1].result.threw
        /\ call[1].result.text =
              SubSeq(call[1].arg, 1, 4) \o <<"-">> \o SubSeq(call[1].arg, 5, 6)
              \o <<"-">> \o SubSeq(call[1].arg, 7, 8) \o <<"T">>
              \o (IF Len(call[1].arg) >= 10 THEN SubSeq(call[1].arg, 9, 10) ELSE <<"1","2">>)
              \o <<":">>
              \o (IF Len(call[1].arg) >= 12 THEN SubSeq(call[1].arg, 11, 12) ELSE <<"0","0">>)
              \o <<":">>
              \o (IF Len(call[1].arg) >= 14 THEN SubSeq(call[1].arg, 13, 14) ELSE <<"0","0">>)
              \o <<"+","0","0",":","0","0">>

\* the timestamp 20230330175424 gave 2023-03-30T17:54:24
C14_Witness ==
    /\ Called("formatWordPressDate")
    /\ call[1].arg = TS_full
    /\ call[1].result.text = D_example

\* a timestamp without hour gave a date at 12:00:00
C14_WitnessNoon ==
    /\ Called("formatWordPressDate")
    /\ call[1].arg = TS_day
    /\ ~call[1].result.threw

\* the failure message an error post carries in content and metadata.error
CarriesMessage(post, message) ==
    /\ post.id = S_error_post
    /\ post.content = M_failed_to_extract \o message
    /\ post.metadata.error = message

\* C15: extractWordPressPosts does not throw, and when the handle is not a
\* function or the query of the html element throws it returns one post,
\* the error post, with the failure message in content and metadata.error
\* and with the url and the timestamp given
C15_ErrorPostOfAnUnusableHandle ==
    Called("extractWordPressPosts") =>
        /\ ~call[1].result.threw
        /\ ~call[1].arg.handle.callable \/ call[1].arg.handle.html.thrown # <<>> =>
              /\ Len(call[1].result.posts) = 1
              /\ \/ CarriesMessage(call[1].result.posts[1], M_not_available)
                 \/ /\ call[1].arg.handle.callable
                    /\ call[1].arg.handle.html.thrown[1].isError
                    /\ CarriesMessage(call[1].result.posts[1],
                          M_test_failed \o call[1].arg.handle.html.thrown[1].message)
                 \/ /\ call[1].arg.handle.callable
                    /\ ~call[1].arg.handle.html.thrown[1].isError
                    /\ CarriesMessage(call[1].result.posts[1], M_reading_message)
              /\ call[1].result.posts[1].metadata.sourceUrl = call[1].arg.url
              /\ call[1].result.posts[1].metadata.timestamp = call[1].arg.timestamp

\* a handle that is not a function gave the error post
C15_Witness ==
    /\ Called("extractWordPressPosts")
    /\ ~call[1].arg.handle.callable
    /\ Len(call[1].result.posts) = 1
    /\ CarriesMessage(call[1].result.posts[1], M_not_available)

\* a query fails before any element was processed: the handle is not a
\* function, or the html query throws, or a selector's query throws when
\* no selector before it found elements, or the page throws when no
\* selector found elements
FailsBeforeAnyElement(handle) ==
    \/ ~handle.callable
    \/ handle.html.thrown # <<>>
    \/ \E i \in 1..Len(postSelectors) :
          /\ handle.queries[i].thrown # <<>>
          /\ \A j \in 1..(i - 1) : handle.queries[j].elements = <<>>
    \/ /\ \A j \in 1..Len(postSelectors) : handle.queries[j].elements = <<>>
       /\ handle.page.thrown # <<>>

\* C15 as stated: whenever a failure occurs before any element is
\* processed the list returned is the one error post
C15_ErrorPostOfAnyEarlyFailure ==
    Called("extractWordPressPosts") =>
        /\ ~call[1].result.threw
        /\ FailsBeforeAnyElement(call[1].arg.handle) =>
              /\ Len(call[1].result.posts) = 1
              /\ call[1].result.posts[1].id = S_error_post

\* C16: cleaning a text that cleanWebArchiveUrls returned gives the same
\* text again
C16_Idempotent ==
    Called("cleanWebArchiveUrls") => call[1].result.twice = call[1].result.once

\* the texts of TextPool for which the second cleaning changes something
C16_ChangedTwice ==
    Called("cleanWebArchiveUrls") /\ call[1].result.twice # call[1].result.once =>
        call[1].arg \in {X_src_www, X_href_www, X_triple}

\* C17: with a snapshot whose posts are not an array among the files,
\* consolidation produces no consolidated result
C17_NotArrayIsFatal ==
    (\E f \in 1..Len(files) : ~IsArray(files[f])) => ~IsReadable(consolidated)

\* what consolidation does with such a snapshot: the file contributes no
\* post, the posts of the other files are consolidated, and the file is
\* counted as successful when its posts are a string
C17_NotArrayIsSkipped ==
    (\E f \in 1..Len(files) : ~IsArray(files[f])) /\ IsReadable(consolidated) =>
        /\ consolidated[1].posts
              = consolidateAllPosts(SelectSeq(files, IsArray), clockReads).posts
        /\ consolidated[1].statistics.successfulSnapshots
              = Cardinality({f \in 1..Len(files) : UsesSnapshot(files[f])})

\* C18: a run of convertToWxr that finds the consolidated file missing,
\* not JSON, without posts or with posts that are not an array rejects with
\* an error and leaves the export document as it was
C18_RejectsAndWritesNothing ==
    [][runs' = runs + 1 /\ ~IsReadable(consolidated) =>
          /\ returned' # <<>>
          /\ returned'[1].error # ""
          /\ wxr' = wxr]_vars

\* a run rejected a file whose posts are a string, and no document exists
C18_Witness ==
    /\ consolidated \in DamagedFiles
    /\ consolidated[1].damage = "posts is a string"
    /\ returned # <<>>
    /\ returned[1].error = "Invalid JSON structure: missing posts array"
    /\ wxr = <<>>

\* the login key that the author string equals when letter case and the
\* spaces around it are ignored, <<>> if there is none
KeyOf(authorString) ==
    IF \E i \in 1..Len(AUTHORS) :
          ToLowerCase(AUTHORS[i].login) = Trim(ToLowerCase(authorString))
    THEN AUTHORS[CHOOSE i \in 1..Len(AUTHORS) :
                    ToLowerCase(AUTHORS[i].login) = Trim(ToLowerCase(authorString))].login
    ELSE <<>>

\* C19: an author string that equals a login key of the fixed table when
\* case and the spaces around it are ignored resolves to that key, and no
\* identity is created
C19_KeyIgnoringCase ==
    Called("getAuthorLogin") /\ KeyOf(call[1].arg) # <<>> =>
        /\ call[1].result.login = KeyOf(call[1].arg)
        /\ CREATED_USERS = call[1].result.before

\* the same for the keys that are written without capital letters
C19_LowerCaseKeys ==
    Called("getAuthorLogin") /\ KeyOf(call[1].arg) # <<>>
    /\ KeyOf(call[1].arg) = ToLowerCase(KeyOf(call[1].arg)) =>
        /\ call[1].result.login = KeyOf(call[1].arg)
        /\ CREATED_USERS = call[1].result.before

\* the fixed identities one of whose names the author string equals,
\* ignoring case
NameMatches(authorString) ==
    {i \in 1..Len(AUTHORS) :
        Trim(ToLowerCase(authorString))
            \in {LowerNames[i].displayName,
                 LowerNames[i].firstName \o <<" ">> \o LowerNames[i].lastName,
                 LowerNames[i].firstName, LowerNames[i].lastName}}

\* the line of test_single.js on which the identity at position i of
\* Object.entries(AUTHORS) is written: the key '246964' is written on line
\* 242 and enumerated first
WrittenAt(i) == IF i = 1 THEN 242 ELSE IF i <= 23 THEN 218 + i ELSE 219 + i

\* the author string is not blank and not a login key, and is a name of a
\* fixed identity
IsNameOnly(authorString) ==
    /\ Trim(authorString) # <<>>
    /\ KeyOf(authorString) = <<>>
    /\ ~IsAuthorKey(Trim(ToLowerCase(authorString)))
    /\ NameMatches(authorString) # {}

\* C20: an author string that is not a login key and equals a name of
\* fixed identities resolves to the login of the first of them in the
\* table, whether or not an identity before it matches by words, and no
\* identity is created
C20_FirstExactName ==
    Called("getAuthorLogin") /\ IsNameOnly(call[1].arg) =>
        /\ \E i \in NameMatches(call[1].arg) :
              /\ \A j \in NameMatches(call[1].arg) : WrittenAt(i) <= WrittenAt(j)
              /\ call[1].result.login = AUTHORS[i].login
        /\ CREATED_USERS = call[1].result.before

\* "Aurojit Panda" gave aurojit
C20_Witness ==
    /\ Called("getAuthorLogin")
    /\ call[1].arg = A_Aurojit
    /\ IsNameOnly(call[1].arg)
    /\ call[1].result.login = AUTHORS[3].login
    /\ CREATED_USERS = call[1].result.before

\* a name that several identities bear
C20_WitnessSeveral ==
    /\ Called("getAuthorLogin")
    /\ IsNameOnly(call[1].arg)
    /\ Cardinality(NameMatches(call[1].arg)) > 1

\* the words of the author string, in lower case
Tokens(authorString) ==
    IF Trim(authorString) = <<>> THEN {}
    ELSE SetOf(Words(Trim(ToLowerCase(authorString))))

\* what entitles the author string to the fixed identity at position i: it
\* is blank and the identity is admin, it equals the identity's key or one
\* of its names (ignoring case), or it holds the first and the last name,
\* or the display name, as whole words
Entitled(authorString, i) ==
    \/ Trim(authorString) = <<>> /\ AUTHORS[i].login = S_admin
    \/ Trim(ToLowerCase(authorString)) = ToLowerCase(AUTHORS[i].login)
    \/ i \in NameMatches(authorString)
    \/ /\ LowerNames[i].firstName # <<>> /\ LowerNames[i].lastName # <<>>
       /\ LowerNames[i].firstName \in Tokens(authorString)
       /\ LowerNames[i].lastName \in Tokens(authorString)
    \/ LowerNames[i].displayName # <<>> /\ LowerNames[i].displayName \in Tokens(authorString)

\* C21: getAuthorLogin returns the login of a fixed identity only for an
\* author string that is entitled to that identity
C21_FixedLoginOnlyWhenEntitled ==
    Called("getAuthorLogin") =>
        \A i \in 1..Len(AUTHORS) :
            call[1].result.login = AUTHORS[i].login => Entitled(call[1].arg, i)

\* the same for the calls that create no identity, and an author string
\* that is entitled to no fixed identity and is no inherited property name
\* leads to a new identity
C21_MatchedOnlyWhenEntitled ==
    Called("getAuthorLogin") =>
        /\ CREATED_USERS = call[1].result.before =>
              \A i \in 1..Len(AUTHORS) :
                  call[1].result.login = AUTHORS[i].login => Entitled(call[1].arg, i)
        /\ (\A i \in 1..Len(AUTHORS) : ~Entitled(call[1].arg, i))
           /\ Trim(ToLowerCase(call[1].arg)) \notin InheritedKeys =>
              CREATED_USERS # call[1].result.before

\* the categories (tags) of the exported posts, post after post
TermsSeen(Terms(_)) == Flatten(MapSeq(Pick(Exported, Wanted), Terms))

\* the definitions defs declare every term of seen once, numbered from
\* first on in the order in which the terms are first seen
DeclaredInOrder(defs, seen, first) ==
    /\ {defs[k].name : k \in 1..Len(defs)} = SetOf(seen)
    /\ \A k, l \in 1..Len(defs) :
          /\ defs[k].name = defs[l].name => k = l
          /\ k < l => MinOf({i \in 1..Len(seen) : seen[i] = defs[k].name})
                         < MinOf({i \in 1..Len(seen) : seen[i] = defs[l].name})
    /\ \A k \in 1..Len(defs) : defs[k].term_id = first + k - 1

\* C22: the header declares each category of the exported posts once with
\* the ids 1..C and each tag once with the ids C+1..C+T, in first-seen
\* order; no two terms of the document share an id; and every term an item
\* refers to is declared
C22_TermsDeclaredAndNumbered ==
    HasExported =>
        /\ DeclaredInOrder(wxr[1].categories, TermsSeen(LAMBDA p : p.categories), 1)
        /\ DeclaredInOrder(wxr[1].tags, TermsSeen(LAMBDA p : p.tags),
                           Len(wxr[1].categories) + 1)
        /\ NoRepeat(MapSeq(wxr[1].categories \o wxr[1].tags, LAMBDA d : d.term_id))
        /\ \A i \in 1..Len(wxr[1].items) : \A r \in 1..Len(wxr[1].items[i].terms) :
              \E d \in SetOf(IF wxr[1].items[i].terms[r].domain = "category"
                             THEN wxr[1].categories ELSE wxr[1].tags) :
                  d.name = wxr[1].items[i].terms[r].name

\* an export of two posts that share a category, with two categories and
\* two tags declared
C22_Witness ==
    /\ HasExported
    /\ Len(wxr[1].items) = 2
    /\ Len(wxr[1].categories) = 2
    /\ Len(wxr[1].tags) = 2
    /\ Len(TermsSeen(LAMBDA p : p.categories)) = 3
    /\ wxr[1].tags[2].term_id = 4

\* the post has a title: the test of the consolidator, line 587 of
\* fetch_posts.js
HasTitle(post) == Trim(post.title) # <<>>

\* C23: the slug of an item is the consolidator's title slug of the post's
\* title, and the uniqueId of the post when the post has no title
C23_SlugOfTitleOrUniqueId ==
    HasExported =>
        \A k \in 1..Len(wxr[1].items) :
            \E p \in {Pick(Exported, Wanted)[k]} :
                wxr[1].items[k].slug =
                    IF HasTitle(p) THEN TitleSlug(p.title) ELSE p.uniqueId

\* what holds instead: a titled post has the title slug of its title, and a
\* post without title that of the words Untitled Post
C23_SlugOfTitleOrUntitled ==
    HasExported =>
        \A k \in 1..Len(wxr[1].items) :
            \E p \in {Pick(Exported, Wanted)[k]} :
                wxr[1].items[k].slug =
                    TitleSlug(IF p.title # <<>> THEN p.title ELSE S_untitled)

\* the first of the postSelectors that matches elements of the handle
FirstMatching(handle) ==
    MinOf({i \in 1..Len(postSelectors) : handle.queries[i].elements # <<>>})

\* the posts extracted from elements: those stamped with a post selector
Structural(posts) ==
    {k \in 1..Len(posts) : posts[k].metadata.selector \in SetOf(postSelectors)}

ElementsThrowErrors(handle) ==
    \A i \in 1..Len(postSelectors) : \A e \in SetOf(handle.queries[i].elements) :
        e.thrown = <<>> \/ e.thrown[1].isError

\* what holds instead: one selector, the first that matches, as long as
\* every value thrown while an element is read is an Error
C24_OneSelectorWhileErrorsAreThrown ==
    Called("extractWordPressPosts") /\ ElementsThrowErrors(call[1].arg.handle) =>
        \A k \in Structural(call[1].result.posts) :
            call[1].result.posts[k].metadata.selector
                = postSelectors[FirstMatching(call[1].arg.handle)]

\* the handle can be queried and none of its queries throws a value
\* without a message: the try block of extractWordPressPosts runs to its end
RunsToItsEnd(handle) ==
    /\ handle.callable
    /\ handle.html.thrown = <<>>
    /\ \A i \in 1..Len(postSelectors) :
          handle.queries[i].thrown = <<>> \/ handle.queries[i].thrown[1].isError
    /\ handle.page.thrown = <<>> \/ handle.page.thrown[1].isError

\* no post selector matches an element of the handle
NothingMatches(handle) ==
    \A i \in 1..Len(postSelectors) : handle.queries[i].elements = <<>>

\* C25: when no post selector matches an element, the list returned is the
\* one page-content post of the main block, with the url and the timestamp
\* given, and the empty list without a main block; when some selector
\* matches, no page-content post is returned
C25_PageOnlyWhenNothingMatches ==
    Called("extractWordPressPosts") =>
        /\ RunsToItsEnd(call[1].arg.handle) /\ NothingMatches(call[1].arg.handle) =>
              IF call[1].arg.handle.page.content # <<>>
              THEN /\ Len(call[1].result.posts) = 1
                   /\ call[1].result.posts[1].id = S_page_content
                   /\ call[1].result.posts[1].metadata.selector = S_page_content
                   /\ call[1].result.posts[1].content = call[1].arg.handle.page.content
                   /\ call[1].result.posts[1].metadata.sourceUrl = call[1].arg.url
                   /\ call[1].result.posts[1].metadata.timestamp = call[1].arg.timestamp
              ELSE call[1].result.posts = <<>>
        /\ ~NothingMatches(call[1].arg.handle) =>
              \A k \in 1..Len(call[1].result.posts) :
                  call[1].result.posts[k].id # S_page_content

\* no selector matched, one query threw an Error, and the page post of the
\* main block was returned
C25_Witness ==
    /\ Called("extractWordPressPosts")
    /\ NothingMatches(call[1].arg.handle)
    /\ \E i \in 1..Len(postSelectors) : call[1].arg.handle.queries[i].thrown # <<>>
    /\ Len(call[1].result.posts) = 1
    /\ call[1].result.posts[1].id = S_page_content

\* a selector matched elements of a page with a main block, and the posts
\* returned are those of the elements
C25_WitnessMatched ==
    /\ Called("extractWordPressPosts")
    /\ ~NothingMatches(call[1].arg.handle)
    /\ call[1].arg.handle.page.content # <<>>
    /\ Structural(call[1].result.posts) = 1..Len(call[1].result.posts)
    /\ call[1].result.posts # <<>>

\* the statistics of the consolidation run
HasStatistics == IsReadable(consolidated) /\ "statistics" \in DOMAIN consolidated[1]

\* C26: totalSnapshots is the number of snapshot records consolidated, and
\* successfulSnapshots the number of those whose success flag is true
C26_SnapshotCounts ==
    HasStatistics =>
        /\ consolidated[1].statistics.totalSnapshots = Len(files)
        /\ consolidated[1].statistics.successfulSnapshots
              = Cardinality({f \in 1..Len(files) : files[f].success})

\* what holds instead: successfulSnapshots counts the records whose success
\* flag is true and whose list of posts is not empty
C26_CountsOfSnapshotsWithPosts ==
    HasStatistics =>
        /\ consolidated[1].statistics.totalSnapshots = Len(files)
        /\ consolidated[1].statistics.successfulSnapshots
              = Cardinality({f \in 1..Len(files) :
                                files[f].success /\ files[f].posts # <<>>})

\* C27: the items of one document have pairwise distinct post ids
C27_DistinctPostIds ==
    HasExported => NoRepeat(MapSeq(wxr[1].items, LAMBDA item : item.post_id))

\* the groups of the run: one per key, with the positions of its members
GroupOf(rk, k) == {i \in 1..Len(rk) : rk[i] = k}

\* C28: every post collected from the snapshots used is in the group of
\* exactly one output post, there is one output post per group, the
\* uniqueIds of the output are pairwise distinct, and uniquePosts plus
\* duplicatesRemoved is totalPostsBeforeDedup
C28_PostsConserved ==
    HasStatistics =>
        /\ Len(allPosts) = SumSeq(MapSeq(files,
               LAMBDA s : IF UsesSnapshot(s) THEN Len(s.posts) ELSE 0))
        /\ Len(postKeys) = Len(allPosts)
        /\ \A i \in 1..Len(allPosts) : Outputs(postKeys[i]) = 1
        /\ \A o \in 1..Len(Output) : GroupOf(postKeys, Output[o].uniqueId) # {}
        /\ NoRepeat(MapSeq(Output, LAMBDA p : p.uniqueId))
        /\ consolidated[1].statistics.uniquePosts = Len(Output)
        /\ consolidated[1].statistics.totalPostsBeforeDedup = Len(allPosts)
        /\ consolidated[1].statistics.uniquePosts
              + consolidated[1].statistics.duplicatesRemoved
              = consolidated[1].statistics.totalPostsBeforeDedup

\* a run over two snapshots in which posts were merged and others were not
C28_Witness ==
    /\ HasStatistics
    /\ Len(files) = 2
    /\ consolidated[1].statistics.duplicatesRemoved >= 2
    /\ consolidated[1].statistics.uniquePosts >= 3
    /\ \E o \in 1..Len(Output) :
          Cardinality(GroupOf(postKeys, Output[o].uniqueId)) = 1

\* C29: the login of an identity that getAuthorLogin creates is not empty
\* and is the login of no fixed identity, and the fixed and the created
\* identities declared as authors have pairwise distinct logins
C29_SynthesizedLoginIsNew ==
    Called("getAuthorLogin") /\ CREATED_USERS # call[1].result.before =>
        /\ call[1].result.login # <<>>
        /\ \A i \in 1..Len(AUTHORS) : AUTHORS[i].login # call[1].result.login
        /\ NoRepeat(MapSeq(AUTHORS \o CREATED_USERS, LAMBDA author : author.login))

\* the message with which an attempt that got this response fails, <<>> if
\* the attempt succeeds
FailureOf(response) == AttemptOutcome(response, <<>>, <<>>, Now1).error

\* the attempts of the fetchSnapshot call so far
FetchAttempts ==
    call # <<>> /\ call[1].op = "fetchSnapshot" =>
        /\ Len(responses) <= MAX_RETRIES + 1
        /\ \A k \in 1..(Len(responses) - 1) : FailureOf(responses[k]) # <<>>
        /\ ~call[1].done =>
              /\ Len(responses) <= MAX_RETRIES
              /\ \A k \in 1..Len(responses) : FailureOf(responses[k]) # <<>>
        /\ call[1].done =>
              /\ responses # <<>>
              /\ call[1].result.timestamp = call[1].arg.timestamp
              /\ call[1].result.originalUrl = call[1].arg.originalUrl
              /\ IF FailureOf(responses[Len(responses)]) = <<>>
                 THEN /\ call[1].result.success
                      /\ call[1].result.error = <<>>
                      /\ \E now \in NowPool :
                            call[1].result.posts =
                                extractWordPressPosts(
                                    responses[Len(responses)].handle[1],
                                    call[1].result.waybackUrl,
                                    call[1].arg.timestamp, now).posts
                 ELSE /\ ~call[1].result.success
                      /\ call[1].result.posts = <<>>
                      /\ call[1].result.error = FailureOf(responses[Len(responses)])[1]
                      /\ Len(responses) = MAX_RETRIES + 1

\* C30: fetchSnapshot makes at most MAX_RETRIES + 1 attempts, none after
\* one that succeeded; it returns success with the posts of the attempt
\* that succeeded, and no success, no posts and the message of the last
\* failure exactly when MAX_RETRIES + 1 attempts have failed; and a call
\* that is pending comes to return its result
C30_ReturnsWithinFourAttempts ==
    /\ []FetchAttempts
    /\ IsPending("fetchSnapshot") ~> Called("fetchSnapshot")

\* four attempts failed, the last for another reason than the third, and
\* the result carries the message of the last
C30_Witness ==
    /\ Called("fetchSnapshot")
    /\ Len(responses) = MAX_RETRIES + 1
    /\ ~call[1].result.success
    /\ FailureOf(responses[MAX_RETRIES]) # FailureOf(responses[MAX_RETRIES + 1])
    /\ call[1].result.error = FailureOf(responses[MAX_RETRIES + 1])[1]

\* the third attempt succeeded after two failures and gave one post
C30_WitnessRetried ==
    /\ Called("fetchSnapshot")
    /\ Len(responses) = MAX_RETRIES
    /\ call[1].result.success
    /\ Len(call[1].result.posts) = 1

====
